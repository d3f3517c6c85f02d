------------------------ MODULE WechatPublishProofs ------------------------
(***************************************************************************)
(* Proofs about WechatPublish, for any number of callers, articles bound    *)
(* elsewhere, refusals and faults.  The submission cannot be repeated       *)
(* because a row without evidence of one, in a state from which it may be   *)
(* submitted, stands for a draft that nobody is submitting and of which     *)
(* nothing was accepted (OutInv); evidence is taken back only by the call   *)
(* that got the definitive refusal, and no copy of the row that is saved    *)
(* later, evidence included, brings such a state back.  What keeps a        *)
(* published row published is the version (VersionOK): the calls that       *)
(* write after they have asked WeChat write over what they have read.       *)
(***************************************************************************)
EXTENDS WechatPublish, TLAPS

Final == {"published", "unsupported", "awaiting_manual", "skipped"}

Owners == [Articles -> {None, "this", "another"}]

\* What the columns of a publication say of each other; what it names is its own.
RowOK(r, own) ==
  /\ r.st = "awaiting_manual" => r.manual
  /\ r.manual => r.st \in {"awaiting_manual", "skipped"}
  /\ r.st \in {"drafted", "skipped"} => ~Evidence(r)
  /\ r.tok # None => r.polls = 0 /\ r.st # "publishing"
  /\ r.st = "publishing" => r.polls < MaxPolls
  /\ r.art # None => own[r.art] = "this"
  /\ budget.denials = 0 => ~r.manual

\* What a call has read, and what it knows when no interface is ever refused
CallOK(k, own) ==
  /\ k.copy.art # None => own[k.copy.art] = "this"
  /\ k.copy.tok # None => k.copy.polls = 0
  /\ budget.denials = 0 => k.pc # "deny" /\ (k.pc = "save" => k.out # "48001")

\* What a call knows of the row while the version that it has loaded is the row's
VersionOK(k, st) ==
  /\ k.pc \in {"list", "drafts", "bind", "match"} => st \notin Final
  /\ k.pc = "poll" => st = "publishing"

\* A publication that may come to be submitted again, and says of no submission
Resubmittable(r) == r.st \notin {"published", "awaiting_manual"} /\ ~r.manual /\ ~Evidence(r)

Out(p) == proc[p].pc \in {"submit", "save"}

\* One call at a time is out, on a row that says so; of what it submitted nothing was
\* accepted, unless that is the answer that it is to save.
OutInv ==
  /\ Resubmittable(row) => row.tok = None /\ accepted = 0 /\ \A p \in Procs : ~Out(p)
  /\ \A p, q \in Procs : Out(p) /\ Out(q) => p = q
  /\ \A p \in Procs : Out(p) /\ accepted > 0 =>
       proc[p].pc = "save" /\ proc[p].out \in {"accepted", "lost"}
  /\ accepted <= 1

Body ==
  /\ TypeOK /\ RowOK(row, owner)
  /\ \A p \in Procs : CallOK(proc[p], owner) /\ (same[p] => VersionOK(proc[p], row.st))
  /\ budget.denials = 0 => denied = {}

IInv == Body /\ OutInv

\* What no step does, unless an interface was refused: take a publication back.
Stays == budget.denials = 0 /\ row.st = "published" => row'.st = "published"

BudgetType == [callers : SUBSET Callers, calls : Nat, errors : Nat, denials : Nat, faults : Nat,
               events : Nat, rivals : Nat]

LEMMA RestFacts ==
  /\ \A m \in {"draft", "direct"} :
       /\ Row0(m) \in Publication /\ Row0(m).st = "drafted" /\ Row0(m).manual = FALSE
       /\ Row0(m).sub = FALSE /\ Row0(m).pid = FALSE /\ Row0(m).tok = None
       /\ Row0(m).art = None /\ Row0(m).polls = 0
  /\ Idle \in CallState /\ Idle.pc = "idle" /\ Idle.copy = Row0("draft")
  /\ None \notin Procs /\ Gone \notin Procs /\ "poller" \in Procs /\ "reconciler" \in Procs
  /\ Callers \subseteq Procs
<1>1. ASSUME NEW m \in {"draft", "direct"} PROVE Row0(m) \in Publication
  <2>1. 0 \in 0..MaxPolls /\ {} \in SUBSET Articles
    BY PublishAssumption
  <2> QED
    BY <2>1 DEF Row0, Publication, None
<1>2. Idle \in CallState
  <2>1. Row0("draft") \in Publication
    BY <1>1
  <2> QED
    BY <2>1 DEF Idle, CallState, None
<1>3. None \notin Procs /\ Gone \notin Procs /\ "poller" \in Procs /\ "reconciler" \in Procs
      /\ Callers \subseteq Procs
  BY PublishAssumption DEF Procs, None, Gone
<1> QED
  BY <1>1, <1>2, <1>3 DEF Row0, Idle

LEMMA InitInv == Init => IInv
<1> SUFFICES ASSUME Init PROVE IInv
    OBVIOUS
<1>1. PICK m \in {"draft", "direct"} : row = Row0(m)
  BY DEF Init
<1>2. /\ row \in Publication /\ row.st = "drafted" /\ row.manual = FALSE /\ row.sub = FALSE
      /\ row.pid = FALSE /\ row.tok = None /\ row.art = None /\ row.polls = 0
  BY <1>1, RestFacts
<1>3. /\ budget \in BudgetType /\ 0 \in 0..budget.calls /\ 0 \in 0..budget.errors
      /\ 0 \in 0..budget.denials /\ 0 \in 0..budget.faults /\ 0 \in 0..budget.events
  BY PublishAssumption DEF Init, BudgetType
<1>4. /\ proc \in [Procs -> CallState]
      /\ \A p \in Procs : proc[p].pc = "idle" /\ proc[p].copy = Row0("draft") /\ ~same[p]
  <2>1. proc = [p \in Procs |-> Idle] /\ same = [p \in Procs |-> FALSE]
    BY DEF Init
  <2>2. \A p \in Procs : proc[p] = Idle /\ ~same[p]
    BY <2>1
  <2> QED
    BY <2>1, <2>2, RestFacts
<1>5. TypeOK
  <2>1. owner \in [Articles -> {None, "this", "another"}] /\ same \in [Procs -> BOOLEAN]
    BY DEF Init
  <2>2. denied \subseteq {"submit", "query"} /\ live \subseteq Articles /\ budget \in Budgets
    BY DEF Init
  <2>3. /\ wx \in {None, "auditing", "success", "rejected"} /\ draft \in BOOLEAN
        /\ old \in BOOLEAN /\ reuse \in BOOLEAN
    BY Zenon DEF Init
  <2>5. accepted \in 0..2
    BY DEF Init
  <2>4. /\ calls \in 0..budget.calls /\ errors \in 0..budget.errors
        /\ denials \in 0..budget.denials /\ faults \in 0..budget.faults
        /\ events \in 0..budget.events
    BY <1>3 DEF Init
  <2> QED
    BY <1>2, <1>4, <2>1, <2>2, <2>3, <2>4, <2>5 DEF TypeOK
<1>6. RowOK(row, owner)
  BY <1>2 DEF RowOK, Evidence
<1>7. \A p \in Procs : CallOK(proc[p], owner) /\ (same[p] => VersionOK(proc[p], row.st))
  BY <1>4, RestFacts DEF CallOK
<1>8. OutInv
  BY <1>2, <1>4 DEF OutInv, Out, Init
<1> QED
  BY <1>5, <1>6, <1>7, <1>8 DEF IInv, Body, Init

-----------------------------------------------------------------------------
(* Steps of one process, or of none                                          *)

\* A row that may follow: it takes no publication back ...
GoodRow(r, own) ==
  /\ r \in Publication /\ RowOK(r, own)
  /\ budget.denials = 0 /\ row.st = "published" => r.st = "published"

\* ... and makes nothing resubmittable.
QuietRow(r, own) ==
  /\ GoodRow(r, own)
  /\ Resubmittable(r) => Resubmittable(row) /\ r.tok \in {None, row.tok}

NoneSame == [q \in Procs |-> FALSE]

SameMoves(p) ==
  /\ same' \in [Procs -> BOOLEAN]
  /\ \/ same' = NoneSame
     \/ /\ row'.st = row.st
        /\ \A q \in Procs \ {p} : same'[q] = same[q]
        /\ same'[p] => VersionOK(proc'[p], row.st)

CallMoves(p) ==
  /\ proc' \in [Procs -> CallState]
  /\ \A q \in Procs \ {p} : proc'[q] = proc[q]
  /\ CallOK(proc'[p], owner')

OwnersKept == owner' \in Owners /\ \A a \in Articles : owner[a] = "this" => owner'[a] = "this"

DeniedOK == denied' \subseteq {"submit", "query"} /\ (budget.denials = 0 => denied' = {})

AroundOK ==
  /\ old' \in BOOLEAN /\ reuse' \in BOOLEAN /\ draft' \in BOOLEAN /\ live' \subseteq Articles
  /\ wx' \in {None, "auditing", "success", "rejected"}

BoundsOK ==
  /\ budget' = budget
  /\ calls' \in 0..budget.calls /\ errors' \in 0..budget.errors
  /\ denials' \in 0..budget.denials /\ faults' \in 0..budget.faults
  /\ events' \in 0..budget.events

LEMMA BodyInv ==
  ASSUME IInv, NEW p \in Procs, GoodRow(row', owner'), SameMoves(p), CallMoves(p), OwnersKept,
         DeniedOK, AroundOK, BoundsOK, accepted' \in 0..2
  PROVE  Body' /\ Stays
<1>1. Body
  BY DEF IInv
<1>2. TypeOK'
  <2>1. budget' \in Budgets
    BY <1>1 DEF Body, TypeOK, BoundsOK
  <2>2. /\ calls' \in 0..budget'.calls /\ errors' \in 0..budget'.errors
        /\ denials' \in 0..budget'.denials /\ faults' \in 0..budget'.faults
        /\ events' \in 0..budget'.events
    BY DEF BoundsOK
  <2>3. row' \in Publication /\ owner' \in [Articles -> {None, "this", "another"}]
        /\ denied' \subseteq {"submit", "query"}
    BY DEF GoodRow, OwnersKept, Owners, DeniedOK
  <2>4. proc' \in [Procs -> CallState] /\ same' \in [Procs -> BOOLEAN]
    BY DEF SameMoves, CallMoves
  <2> QED
    BY <2>1, <2>2, <2>3, <2>4 DEF TypeOK, AroundOK
<1>3. RowOK(row, owner)'
  BY DEF GoodRow, RowOK, BoundsOK
<1>4. ASSUME NEW q \in Procs PROVE CallOK(proc[q], owner)'
  <2>1. CASE q = p
    BY <2>1 DEF CallMoves, CallOK, BoundsOK
  <2>2. CASE q # p
    <3>1. proc'[q] = proc[q] /\ CallOK(proc[q], owner) /\ proc[q].copy \in Publication
      BY <1>1, <2>2 DEF CallMoves, Body, TypeOK, CallState
    <3>2. proc[q].copy.art \in Articles \cup {None}
      BY <3>1 DEF Publication
    <3> QED
      BY <3>1, <3>2 DEF CallOK, OwnersKept, BoundsOK
  <2> QED
    BY <2>1, <2>2
<1>5. ASSUME NEW q \in Procs, same'[q] PROVE VersionOK(proc'[q], row'.st)
  <2>1. ~(same' = NoneSame)
    BY <1>5 DEF NoneSame
  <2>2. row'.st = row.st /\ (q # p => same[q] /\ proc'[q] = proc[q])
        /\ (q = p => VersionOK(proc'[p], row.st))
    BY <1>5, <2>1 DEF SameMoves, CallMoves
  <2>3. CASE q = p
    BY <2>2, <2>3
  <2>4. CASE q # p
    BY <1>1, <2>2, <2>4 DEF Body
  <2> QED
    BY <2>3, <2>4
<1>6. \A q \in Procs : (CallOK(proc[q], owner) /\ (same[q] => VersionOK(proc[q], row.st)))'
  BY <1>4, <1>5 DEF VersionOK
<1>7. (budget.denials = 0 => denied = {})'
  BY DEF DeniedOK, BoundsOK
<1> QED
  BY <1>2, <1>3, <1>6, <1>7 DEF Body, Stays, GoodRow

LEMMA OutKept ==
  ASSUME IInv, NEW p \in Procs, QuietRow(row', owner'), CallMoves(p), accepted' = accepted,
         Out(p)' => proc'[p] = proc[p]
  PROVE  OutInv'
<1>1. OutInv
  BY DEF IInv
<1>2. \A q \in Procs : Out(q)' => Out(q) /\ proc'[q] = proc[q]
  BY DEF Out, CallMoves
<1>3. Resubmittable(row)' => Resubmittable(row) /\ row'.tok \in {None, row.tok}
  BY DEF QuietRow, Resubmittable, Evidence
<1>4. (Resubmittable(row) => row.tok = None /\ accepted = 0 /\ \A q \in Procs : ~Out(q))'
  BY <1>1, <1>2, <1>3 DEF OutInv
<1>5. (\A q, r \in Procs : Out(q) /\ Out(r) => q = r)'
  BY <1>1, <1>2 DEF OutInv
<1>6. (\A q \in Procs : Out(q) /\ accepted > 0 =>
         proc[q].pc = "save" /\ proc[q].out \in {"accepted", "lost"})'
  BY <1>1, <1>2 DEF OutInv
<1> QED
  BY <1>1, <1>4, <1>5, <1>6 DEF OutInv

LEMMA QuietInv ==
  ASSUME IInv, NEW p \in Procs, QuietRow(row', owner'), SameMoves(p), CallMoves(p), OwnersKept,
         DeniedOK, AroundOK, BoundsOK, accepted' = accepted, Out(p)' => proc'[p] = proc[p]
  PROVE  IInv' /\ Stays
<1>1. accepted' \in 0..2
  BY DEF IInv, Body, TypeOK
<1> QED
  BY <1>1, BodyInv, OutKept DEF IInv, QuietRow

\* What a step that leaves something alone leaves true
LEMMA Unchanged ==
  ASSUME IInv
  PROVE  /\ UNCHANGED owner => OwnersKept
         /\ UNCHANGED denied => DeniedOK
         /\ UNCHANGED <<old, reuse, draft, live, wx>> => AroundOK
         /\ UNCHANGED bounds => BoundsOK
         /\ accepted \in 0..2
<1>1. Body
  BY DEF IInv
<1>2. UNCHANGED owner => OwnersKept
  BY <1>1 DEF Body, TypeOK, OwnersKept, Owners
<1>3. UNCHANGED denied => DeniedOK
  BY <1>1 DEF Body, TypeOK, DeniedOK
<1>4. UNCHANGED <<old, reuse, draft, live, wx>> => AroundOK
  BY <1>1 DEF Body, TypeOK, AroundOK
<1>5. UNCHANGED bounds => BoundsOK
  BY <1>1 DEF Body, TypeOK, BoundsOK, bounds
<1> QED
  BY <1>1, <1>2, <1>3, <1>4, <1>5 DEF Body, TypeOK

\* The bounded counters
LEMMA Spending ==
  ASSUME IInv
  PROVE  /\ NoError /\ UNCHANGED <<calls, faults, events, budget>> => BoundsOK
         /\ ReadFails /\ UNCHANGED <<calls, faults, events, budget>> => BoundsOK
         /\ Denied48001 /\ UNCHANGED <<calls, faults, events, budget>> =>
              BoundsOK /\ budget.denials # 0
         /\ Fault /\ UNCHANGED <<calls, errors, denials, events, budget>> => BoundsOK
         /\ calls < budget.calls /\ calls' = calls + 1
              /\ UNCHANGED <<errors, denials, faults, events, budget>> => BoundsOK
         /\ events < budget.events /\ events' = events + 1
              /\ UNCHANGED <<calls, errors, denials, faults, budget>> => BoundsOK
<1>1. /\ budget \in Budgets
      /\ calls \in 0..budget.calls /\ errors \in 0..budget.errors
      /\ denials \in 0..budget.denials /\ faults \in 0..budget.faults
      /\ events \in 0..budget.events
  BY DEF IInv, Body, TypeOK
<1>2. /\ budget.calls \in Nat /\ budget.errors \in Nat /\ budget.denials \in Nat
      /\ budget.faults \in Nat /\ budget.events \in Nat
  BY <1>1, PublishAssumption
<1>3. NoError /\ UNCHANGED <<calls, faults, events, budget>> => BoundsOK
  BY <1>1 DEF NoError, BoundsOK
<1>4. ReadFails /\ UNCHANGED <<calls, faults, events, budget>> => BoundsOK
  BY <1>1, <1>2 DEF ReadFails, BoundsOK
<1>5. Denied48001 /\ UNCHANGED <<calls, faults, events, budget>> =>
        BoundsOK /\ budget.denials # 0
  BY <1>1, <1>2 DEF Denied48001, BoundsOK
<1>6. Fault /\ UNCHANGED <<calls, errors, denials, events, budget>> => BoundsOK
  BY <1>1, <1>2 DEF Fault, BoundsOK
<1>7. calls < budget.calls /\ calls' = calls + 1
        /\ UNCHANGED <<errors, denials, faults, events, budget>> => BoundsOK
  BY <1>1, <1>2 DEF BoundsOK
<1>8. events < budget.events /\ events' = events + 1
        /\ UNCHANGED <<calls, errors, denials, faults, budget>> => BoundsOK
  BY <1>1, <1>2 DEF BoundsOK
<1> QED
  BY <1>3, <1>4, <1>5, <1>6, <1>7, <1>8

\* The row as it is
LEMMA RowAsItIs ==
  ASSUME IInv, OwnersKept
  PROVE  QuietRow(row, owner')
<1>1. row \in Publication /\ RowOK(row, owner) /\ row.art \in Articles \cup {None}
  BY DEF IInv, Body, TypeOK, Publication
<1> QED
  BY <1>1 DEF QuietRow, GoodRow, RowOK, OwnersKept

\* Most of what is written over a row changes neither what it says of a submission nor what
\* it names, and starts from a row that is not settled.
LEMMA Edited ==
  ASSUME IInv, UNCHANGED owner, NEW r \in Publication,
         row.st \notin {"published", "awaiting_manual", "skipped"},
         r.st \notin {"published", "awaiting_manual"},
         r.sub = row.sub, r.pid = row.pid, r.manual = row.manual, r.art = row.art,
         r.tok \in {None, row.tok}, r.tok # None => r.polls \in {0, row.polls},
         r.st = "publishing" => r.tok = None /\ r.polls < MaxPolls,
         r.st \in {"drafted", "skipped"} => ~Evidence(row)
  PROVE  QuietRow(r, owner')
<1>1. RowOK(row, owner) /\ ~row.manual
  BY DEF IInv, Body, RowOK
<1>2. RowOK(r, owner')
  BY <1>1 DEF RowOK, Evidence
<1>3. Resubmittable(r) => Resubmittable(row)
  BY <1>1 DEF Resubmittable, Evidence
<1> QED
  BY <1>2, <1>3 DEF QuietRow, GoodRow

\* A publication that is handed to the user is not published by a call any more.
LEMMA HandedOver ==
  ASSUME IInv, OwnersKept, budget.denials # 0, NEW r \in Publication,
         r.st = "awaiting_manual", r.manual = TRUE, r.art # None => owner'[r.art] = "this",
         r.tok # None => r.polls = 0
  PROVE  QuietRow(r, owner')
BY DEF QuietRow, GoodRow, RowOK, Resubmittable

LEMMA FallbackFacts ==
  ASSUME NEW r \in Publication
  PROVE  /\ ManualFallback(r) \in Publication /\ ManualFallback(r).st = "awaiting_manual"
         /\ ManualFallback(r).manual = TRUE /\ ManualFallback(r).art = r.art
         /\ ManualFallback(r).tok = r.tok /\ ManualFallback(r).polls = r.polls
BY DEF ManualFallback, Publication

LEMMA RowHandedOver ==
  ASSUME IInv, UNCHANGED owner, budget.denials # 0
  PROVE  QuietRow(ManualFallback(row), owner')
<1> DEFINE r == ManualFallback(row)
<1>1. row \in Publication /\ RowOK(row, owner) /\ OwnersKept
  BY Unchanged DEF IInv, Body, TypeOK
<1>2. /\ r \in Publication /\ r.st = "awaiting_manual" /\ r.manual = TRUE /\ r.art = row.art
      /\ r.tok = row.tok /\ r.polls = row.polls
  BY <1>1, FallbackFacts
<1> HIDE DEF r
<1>3. (r.art # None => owner'[r.art] = "this") /\ (r.tok # None => r.polls = 0)
  BY <1>1, <1>2 DEF RowOK
<1> QED
  BY <1>1, <1>2, <1>3, HandedOver DEF r

\* A claim token whose call has ended is nobody's.
LEMMA ReleaseFacts ==
  ASSUME NEW p \in Procs, NEW q \in Publication
  PROVE  LET r == Release(p, q) IN
         /\ r \in Publication /\ r.st = q.st /\ r.sub = q.sub /\ r.pid = q.pid
         /\ r.manual = q.manual /\ r.art = q.art /\ r.polls = q.polls
         /\ r.tok = IF q.tok = p THEN Gone ELSE q.tok
BY DEF Release, Publication

LEMMA Released ==
  ASSUME IInv, UNCHANGED owner, NEW p \in Procs
  PROVE  QuietRow(Release(p, row), owner') /\ Release(p, row).st = row.st
<1> DEFINE r == Release(p, row)
<1>1. row \in Publication /\ RowOK(row, owner) /\ OutInv
  BY DEF IInv, Body, TypeOK
<1>2. r \in Publication
  BY <1>1, ReleaseFacts
<1>3. /\ r.st = row.st /\ r.sub = row.sub /\ r.pid = row.pid /\ r.manual = row.manual
      /\ r.art = row.art /\ r.polls = row.polls
      /\ r.tok = IF row.tok = p THEN Gone ELSE row.tok
  BY <1>1, ReleaseFacts
<1> HIDE DEF r
<1>4. r.tok # None => row.tok # None
  BY <1>3, RestFacts
<1>5. RowOK(r, owner')
  BY <1>1, <1>3, <1>4 DEF RowOK, Evidence
<1>6. Resubmittable(r) => Resubmittable(row) /\ r.tok = row.tok
  BY <1>1, <1>3, RestFacts DEF Resubmittable, Evidence, OutInv
<1> QED
  BY <1>2, <1>3, <1>5, <1>6 DEF QuietRow, GoodRow, r

-----------------------------------------------------------------------------
(* How the row is written, and how a call goes on                            *)

LEMMA WriteFacts ==
  ASSUME NEW r, Write(r)
  PROVE  row' = r /\ same' = NoneSame /\ \A p \in Procs : SameMoves(p)
BY DEF Write, NoneSame, SameMoves

LEMMA LeaveFacts ==
  ASSUME IInv, NEW p \in Procs, Leave(p)
  PROVE  row' = row /\ SameMoves(p)
BY DEF IInv, Body, TypeOK, Leave, SameMoves

LEMMA CASFacts ==
  ASSUME IInv, NEW p \in Procs, NEW r, CAS(p, r), UNCHANGED owner,
         same[p] => QuietRow(r, owner')
  PROVE  QuietRow(row', owner') /\ SameMoves(p)
<1>1. CASE same[p]
  BY <1>1, WriteFacts DEF CAS
<1>2. CASE ~same[p]
  BY <1>2, LeaveFacts, RowAsItIs, Unchanged DEF CAS
<1> QED
  BY <1>1, <1>2

LEMMA KeepFacts ==
  ASSUME IInv, NEW p \in Procs, UNCHANGED <<row, same>>,
         same[p] => VersionOK(proc'[p], row.st)
  PROVE  row' = row /\ SameMoves(p)
BY DEF IInv, Body, TypeOK, SameMoves

LEMMA SetFacts ==
  ASSUME IInv, NEW p \in Procs, NEW k \in CallState, CallOK(k, owner'),
         proc' = [proc EXCEPT ![p] = k]
  PROVE  CallMoves(p) /\ proc'[p] = k
BY DEF IInv, Body, TypeOK, CallMoves

LEMMA EndFacts ==
  ASSUME IInv, NEW p \in Procs, NEW ok \in BOOLEAN, End(p, ok)
  PROVE  CallMoves(p) /\ ~Out(p)' /\ proc'[p].pc \in {"idle", "defer"}
<1> DEFINE k == IF proc[p].auto /\ ~ok THEN [Idle EXCEPT !.pc = "defer", !.auto = TRUE] ELSE Idle
<1>1. proc' = [proc EXCEPT ![p] = k]
  BY DEF End, IInv, Body, TypeOK
<1>2. k \in CallState /\ k.pc \in {"idle", "defer"} /\ k.copy = Row0("draft")
  BY RestFacts DEF CallState
<1> HIDE DEF k
<1>3. CallOK(k, owner')
  BY <1>2, RestFacts DEF CallOK
<1> QED
  BY <1>1, <1>2, <1>3, SetFacts DEF Out

\* The calls that begin, or that start over
LEMMA BeginFacts ==
  ASSUME IInv, NEW p \in Procs, NEW pc \in {"idle", "load", "bind"}, NEW k \in CallState,
         k.pc = pc, k.copy = Idle.copy, proc' = [proc EXCEPT ![p] = k]
  PROVE  CallMoves(p) /\ ~Out(p)' /\ proc'[p].pc = pc
<1>1. CallOK(k, owner')
  BY RestFacts DEF CallOK
<1> QED
  BY <1>1, SetFacts DEF Out

\* The steps of a call that change where it is and keep the row that it has read
Places == {"load", "list", "drafts", "claim", "bind", "write", "poll", "match"}

LEMMA AdvanceFacts ==
  ASSUME IInv, OwnersKept, NEW p \in Procs, NEW k \in CallState, k.copy = proc[p].copy,
         k.pc \in Places, proc' = [proc EXCEPT ![p] = k]
  PROVE  CallMoves(p) /\ ~Out(p)' /\ proc'[p].pc = k.pc
<1>1. proc[p] \in CallState /\ CallOK(proc[p], owner)
  BY DEF IInv, Body, TypeOK
<1>2. k.copy.art \in Articles \cup {None}
  BY DEF CallState, Publication
<1>3. CallOK(k, owner')
  BY <1>1, <1>2 DEF CallOK, OwnersKept, Places
<1> QED
  BY <1>3, SetFacts DEF Out, Places

LEMMA GotoFacts ==
  ASSUME IInv, OwnersKept, NEW p \in Procs, NEW pc \in Places, Goto(p, pc)
  PROVE  CallMoves(p) /\ ~Out(p)' /\ proc'[p].pc = pc
<1> DEFINE k == [proc[p] EXCEPT !.pc = pc]
<1>1. proc[p] \in CallState
  BY DEF IInv, Body, TypeOK
<1>2. k \in CallState /\ k.pc = pc /\ k.copy = proc[p].copy
  BY <1>1 DEF CallState, Places
<1>3. proc' = [proc EXCEPT ![p] = k]
  BY DEF Goto
<1> HIDE DEF k
<1> QED
  BY <1>2, <1>3, AdvanceFacts

LEMMA FoundFacts ==
  ASSUME IInv, OwnersKept, NEW p \in Procs, NEW a \in Articles,
         proc' = [proc EXCEPT ![p].pc = "bind", ![p].art = a]
  PROVE  CallMoves(p) /\ ~Out(p)' /\ proc'[p].pc = "bind"
<1> DEFINE k == [proc[p] EXCEPT !.pc = "bind", !.art = a]
<1>1. proc[p] \in CallState
  BY DEF IInv, Body, TypeOK
<1>2. k \in CallState /\ k.pc = "bind" /\ k.copy = proc[p].copy
  BY <1>1 DEF CallState
<1>3. proc' = [proc EXCEPT ![p] = k]
  BY <1>1, IInv DEF IInv, Body, TypeOK
<1> HIDE DEF k
<1> QED
  BY <1>2, <1>3, AdvanceFacts DEF Places

\* A call that keeps a copy of the row
LEMMA CopyFacts ==
  ASSUME IInv, OwnersKept, NEW p \in Procs, NEW k \in CallState, k.copy = row,
         k.pc \in {"deny", "manual"}, k.pc = "deny" => budget.denials # 0,
         proc' = [proc EXCEPT ![p] = k]
  PROVE  CallMoves(p) /\ ~Out(p)' /\ proc'[p].pc = k.pc
<1>1. RowOK(row, owner) /\ row.art \in Articles \cup {None}
  BY DEF IInv, Body, TypeOK, Publication
<1>2. CallOK(k, owner')
  BY <1>1 DEF CallOK, RowOK, OwnersKept
<1> QED
  BY <1>2, SetFacts DEF Out

\* A call that does not move
LEMMA StillFacts ==
  ASSUME IInv, OwnersKept, NEW p \in Procs, UNCHANGED proc
  PROVE  CallMoves(p)
<1>1. proc[p] \in CallState /\ CallOK(proc[p], owner) /\ proc \in [Procs -> CallState]
  BY DEF IInv, Body, TypeOK
<1>2. proc[p].copy.art \in Articles \cup {None}
  BY <1>1 DEF CallState, Publication
<1> QED
  BY <1>1, <1>2 DEF CallMoves, CallOK, OwnersKept

\* A step of one process that binds nothing and leaves WeChat alone
LEMMA CallStepInv ==
  ASSUME IInv, NEW p \in Procs, QuietRow(row', owner'), SameMoves(p), CallMoves(p),
         UNCHANGED <<owner, old, reuse, wechat>>, DeniedOK, BoundsOK,
         ~Out(p)' \/ proc' = proc
  PROVE  IInv' /\ Stays
<1>1. OwnersKept /\ AroundOK /\ accepted' = accepted
  BY Unchanged DEF wechat
<1> QED
  BY <1>1, QuietInv

-----------------------------------------------------------------------------
(* The user's calls                                                          *)

LEMMA CallFacts ==
  ASSUME IInv, NEW c \in Callers, Call(c)
  PROVE  /\ c \in Procs /\ proc[c].pc = "idle" /\ BoundsOK /\ DeniedOK /\ OwnersKept
         /\ UNCHANGED <<owner, old, reuse, wechat>>
         /\ row \in Publication /\ RowOK(row, owner) /\ QuietRow(row, owner')
<1>1. UNCHANGED <<owner, denied, old, reuse, wechat>> /\ BoundsOK /\ proc[c].pc = "idle"
  BY Spending DEF Call
<1>2. c \in Procs /\ DeniedOK /\ OwnersKept
  BY <1>1, RestFacts, Unchanged
<1> QED
  BY <1>1, <1>2, RowAsItIs DEF IInv, Body, TypeOK

LEMMA UserPublishInv == ASSUME IInv, NEW c \in Callers, UserPublish(c) PROVE IInv' /\ Stays
<1>1. Call(c) /\ Goto(c, "load") /\ UNCHANGED <<row, same>>
  BY DEF UserPublish, Keep
<1>2. CallMoves(c) /\ ~Out(c)' /\ proc'[c].pc = "load"
  BY <1>1, CallFacts, GotoFacts DEF Places
<1>3. SameMoves(c)
  BY <1>1, <1>2, CallFacts, KeepFacts DEF VersionOK
<1> QED
  BY <1>1, <1>2, <1>3, CallFacts, CallStepInv

LEMMA AutoPublishInv == ASSUME IInv, NEW c \in Callers, AutoPublish(c) PROVE IInv' /\ Stays
<1> DEFINE k == [Idle EXCEPT !.pc = "load", !.auto = TRUE]
<1>1. Call(c) /\ UNCHANGED <<row, same>> /\ proc' = [proc EXCEPT ![c] = k]
  BY DEF AutoPublish, Keep
<1>2. k \in CallState /\ k.pc = "load" /\ k.copy = Idle.copy
  BY RestFacts DEF CallState
<1> HIDE DEF k
<1>3. CallMoves(c) /\ ~Out(c)' /\ proc'[c].pc = "load"
  BY <1>1, <1>2, CallFacts, BeginFacts
<1>4. SameMoves(c)
  BY <1>1, <1>3, CallFacts, KeepFacts DEF VersionOK
<1> QED
  BY <1>1, <1>3, <1>4, CallFacts, CallStepInv

LEMMA RetryPublishInv == ASSUME IInv, NEW c \in Callers, RetryPublish(c) PROVE IInv' /\ Stays
<1> DEFINE r == [row EXCEPT !.st = RetryTarget, !.code = "", !.due = TRUE, !.polls = 0,
                            !.tok = None]
<1>1. Call(c) /\ row.st = "unsupported" /\ Write(r)
      /\ IF RetryTarget = "drafted" THEN Goto(c, "load") ELSE UNCHANGED proc
  BY DEF RetryPublish
<1>2. /\ RetryTarget \in {"publishing", "publish_submitting", "drafted"}
      /\ RetryTarget = "drafted" => ~Evidence(row)
  BY DEF RetryTarget, Evidence
<1>3. row \in Publication /\ 0 \in 0..MaxPolls /\ 0 < MaxPolls
  BY <1>1, CallFacts, PublishAssumption
<1>4. r \in Publication
  BY <1>2, <1>3 DEF Publication
<1>5. /\ r.st = RetryTarget /\ r.sub = row.sub /\ r.pid = row.pid /\ r.manual = row.manual
      /\ r.art = row.art /\ r.tok = None /\ r.polls = 0
  BY <1>3 DEF Publication
<1> HIDE DEF r
<1>6. QuietRow(r, owner')
  BY <1>1, <1>2, <1>3, <1>4, <1>5, CallFacts, Edited
<1>7. CallMoves(c) /\ (~Out(c)' \/ proc' = proc)
  BY <1>1, CallFacts, GotoFacts, StillFacts DEF Places
<1> QED
  BY <1>1, <1>6, <1>7, WriteFacts, CallFacts, CallStepInv

LEMMA KeepDraftInv == ASSUME IInv, NEW c \in Callers, KeepDraft(c) PROVE IInv' /\ Stays
<1> DEFINE r == [row EXCEPT !.mode = "draft", !.due = FALSE]
<1>1. Call(c) /\ row.st = "drafted" /\ ~Evidence(row) /\ Write(r) /\ UNCHANGED proc
  BY DEF KeepDraft
<1>2. row \in Publication
  BY <1>1, CallFacts
<1>3. /\ r \in Publication /\ r.st = row.st /\ r.sub = row.sub /\ r.pid = row.pid
      /\ r.manual = row.manual /\ r.art = row.art /\ r.tok = row.tok /\ r.polls = row.polls
  BY <1>2 DEF Publication
<1> HIDE DEF r
<1>4. QuietRow(r, owner')
  BY <1>1, <1>3, CallFacts, Edited
<1> QED
  BY <1>1, <1>4, StillFacts, WriteFacts, CallFacts, CallStepInv

LEMMA SkipInv == ASSUME IInv, NEW c \in Callers, Skip(c) PROVE IInv' /\ Stays
<1> DEFINE r == [row EXCEPT !.st = "skipped", !.due = FALSE, !.cand = {}]
<1>1. Call(c) /\ row.st \in {"drafted", "awaiting_manual"} /\ ~Evidence(row) /\ Write(r)
      /\ UNCHANGED proc
  BY DEF Skip
<1>2. row \in Publication /\ RowOK(row, owner) /\ owner' = owner
  BY <1>1, CallFacts
<1>3. /\ r \in Publication /\ r.st = "skipped" /\ r.sub = row.sub /\ r.pid = row.pid
      /\ r.manual = row.manual /\ r.art = row.art /\ r.tok = row.tok /\ r.polls = row.polls
  BY <1>2 DEF Publication
<1> HIDE DEF r
<1>4. QuietRow(r, owner')
  BY <1>1, <1>2, <1>3 DEF QuietRow, GoodRow, RowOK, Resubmittable, Evidence
<1> QED
  BY <1>1, <1>4, StillFacts, WriteFacts, CallFacts, CallStepInv

LEMMA RestoreInv == ASSUME IInv, NEW c \in Callers, RestoreSkipped(c) PROVE IInv' /\ Stays
<1> DEFINE r == [row EXCEPT !.st = IF row.manual THEN "awaiting_manual" ELSE "drafted"]
<1>1. Call(c) /\ row.st = "skipped" /\ Write(r) /\ UNCHANGED proc
  BY DEF RestoreSkipped
<1>2. row \in Publication /\ RowOK(row, owner) /\ owner' = owner
  BY <1>1, CallFacts
<1>3. /\ r \in Publication /\ r.st = (IF row.manual THEN "awaiting_manual" ELSE "drafted")
      /\ r.sub = row.sub /\ r.pid = row.pid /\ r.manual = row.manual /\ r.art = row.art
      /\ r.tok = row.tok /\ r.polls = row.polls
  BY <1>2 DEF Publication
<1> HIDE DEF r
<1>4. QuietRow(r, owner')
  BY <1>1, <1>2, <1>3 DEF QuietRow, GoodRow, RowOK, Resubmittable, Evidence
<1> QED
  BY <1>1, <1>4, StillFacts, WriteFacts, CallFacts, CallStepInv

LEMMA SelectInv == ASSUME IInv, NEW c \in Callers, Select(c) PROVE IInv' /\ Stays
<1>1. Call(c) /\ row.st = "needs_selection" /\ same' = [same EXCEPT ![c] = TRUE] /\ row' = row
  BY DEF Select
<1>2. PICK a \in row.cand \cap live :
        proc' = [proc EXCEPT ![c] = [Idle EXCEPT !.pc = "bind", !.art = a]]
  BY DEF Select
<1>3. a \in Articles
  BY <1>1, CallFacts DEF Publication
<1> DEFINE k == [Idle EXCEPT !.pc = "bind", !.art = a]
<1>4. k \in CallState /\ k.pc = "bind" /\ k.copy = Idle.copy /\ proc' = [proc EXCEPT ![c] = k]
  BY <1>2, <1>3, RestFacts DEF CallState
<1> HIDE DEF k
<1>5. CallMoves(c) /\ ~Out(c)' /\ proc'[c].pc = "bind"
  BY <1>1, <1>2, <1>3, <1>4, CallFacts, BeginFacts
<1>6. SameMoves(c)
  BY <1>1, <1>5 DEF SameMoves, VersionOK, Final, IInv, Body, TypeOK
<1> QED
  BY <1>1, <1>5, <1>6, CallFacts, CallStepInv

LEMMA BindManualInv == ASSUME IInv, NEW c \in Callers, BindManual(c) PROVE IInv' /\ Stays
<1> DEFINE k == [Idle EXCEPT !.pc = "manual", !.copy = row]
<1>1. Call(c) /\ same' = [same EXCEPT ![c] = TRUE] /\ row' = row
      /\ proc' = [proc EXCEPT ![c] = k]
  BY DEF BindManual
<1>2. k \in CallState /\ k.copy = row /\ k.pc = "manual"
  BY <1>1, CallFacts, RestFacts DEF CallState
<1> HIDE DEF k
<1>3. CallMoves(c) /\ ~Out(c)' /\ proc'[c].pc = "manual"
  BY <1>1, <1>2, CallFacts, CopyFacts
<1>4. SameMoves(c)
  BY <1>1, <1>3 DEF SameMoves, VersionOK, IInv, Body, TypeOK
<1> QED
  BY <1>1, <1>3, <1>4, CallFacts, CallStepInv

LEMMA CheckManualInv == ASSUME IInv, NEW c \in Callers, CheckManual(c) PROVE IInv' /\ Stays
<1>1. /\ c \in Procs /\ Leave(c) /\ UNCHANGED <<owner, old, reuse, wechat>>
      /\ OwnersKept /\ DeniedOK /\ BoundsOK
  BY RestFacts, Unchanged DEF CheckManual
<1>2. CallMoves(c) /\ ~Out(c)'
  BY <1>1, GotoFacts, EndFacts DEF CheckManual, Places
<1> QED
  BY <1>1, <1>2, LeaveFacts, RowAsItIs, CallStepInv

\* The copy is written over the row whatever has become of it; it does not say "drafted".
LEMMA SaveManualInv == ASSUME IInv, NEW c \in Callers, SaveManual(c) PROVE IInv' /\ Stays
<1> DEFINE k == proc[c].copy
           r == [k EXCEPT !.st = "published", !.manual = FALSE, !.code = "", !.due = FALSE]
<1>1. /\ c \in Procs /\ End(c, TRUE) /\ Write(r) /\ UNCHANGED <<owner, old, reuse, wechat>>
      /\ DeniedOK /\ BoundsOK
  BY RestFacts, Unchanged DEF SaveManual
<1>2. k \in Publication /\ CallOK(proc[c], owner)
  BY <1>1 DEF IInv, Body, TypeOK, CallState
<1>3. /\ r \in Publication /\ r.st = "published" /\ r.manual = FALSE /\ r.art = k.art
      /\ r.tok = k.tok /\ r.polls = k.polls
  BY <1>2 DEF Publication
<1>4. (k.art # None => owner[k.art] = "this") /\ (k.tok # None => k.polls = 0)
  BY <1>2 DEF CallOK
<1> HIDE DEF k, r
<1>5. QuietRow(r, owner')
  BY <1>1, <1>3, <1>4 DEF QuietRow, GoodRow, RowOK, Resubmittable
<1> QED
  BY <1>1, <1>5, WriteFacts, EndFacts, CallStepInv

-----------------------------------------------------------------------------
(* Publish                                                                   *)

LEMMA LoadInv == ASSUME IInv, NEW p \in Procs, Load(p) PROVE IInv' /\ Stays
<1> DEFINE final == row.st \in {"published", "unsupported", "awaiting_manual", "skipped"}
<1>1. /\ row' = row /\ UNCHANGED <<owner, old, reuse, wechat>> /\ proc[p].pc = "load"
      /\ DeniedOK /\ OwnersKept /\ (NoError \/ ReadFails)
      /\ UNCHANGED <<calls, faults, events, budget>>
  BY Unchanged DEF Load
<1>2. BoundsOK /\ QuietRow(row', owner')
  BY <1>1, Spending, RowAsItIs
<1>3. /\ row \in Publication /\ proc \in [Procs -> CallState] /\ proc[p] \in CallState
      /\ same \in [Procs -> BOOLEAN]
  BY DEF IInv, Body, TypeOK
<1>4. ASSUME NEW ok \in BOOLEAN, End(p, ok), UNCHANGED same
      PROVE  IInv' /\ Stays
  <2>1. CallMoves(p) /\ ~Out(p)' /\ proc'[p].pc \in {"idle", "defer"}
    BY <1>4, EndFacts
  <2>2. SameMoves(p)
    BY <1>1, <1>4, <2>1, KeepFacts DEF VersionOK
  <2> QED
    BY <1>1, <1>2, <2>1, <2>2, CallStepInv
<1>5. CASE /\ ~final /\ denied # {} /\ UNCHANGED same
           /\ proc' = [proc EXCEPT ![p].pc = "deny", ![p].copy = row]
  <2> DEFINE k == [proc[p] EXCEPT !.pc = "deny", !.copy = row]
  <2>1. k \in CallState /\ k.pc = "deny" /\ k.copy = row
    BY <1>3 DEF CallState
  <2>2. proc' = [proc EXCEPT ![p] = k]
    BY <1>3, <1>5
  <2> HIDE DEF k
  <2>3. budget.denials # 0
    BY <1>5 DEF IInv, Body
  <2>4. CallMoves(p) /\ ~Out(p)' /\ proc'[p].pc = "deny"
    BY <1>1, <2>1, <2>2, <2>3, CopyFacts
  <2>5. SameMoves(p)
    BY <1>1, <1>5, <2>4, KeepFacts DEF VersionOK
  <2> QED
    BY <1>1, <1>2, <2>4, <2>5, CallStepInv
<1>6. CASE /\ ~final /\ denied = {}
           /\ proc' = [proc EXCEPT ![p].pc = "list", ![p].st = row.st]
           /\ same' = [same EXCEPT ![p] = TRUE]
  <2> DEFINE k == [proc[p] EXCEPT !.pc = "list", !.st = row.st]
  <2>1. row.st \in {"", "drafted", "publish_submitting", "publishing", "needs_selection",
                    "publish_failed"}
    BY <1>3, <1>6 DEF Publication
  <2>2. k \in CallState /\ k.pc = "list" /\ k.copy = proc[p].copy
    BY <1>3, <2>1 DEF CallState
  <2>3. proc' = [proc EXCEPT ![p] = k]
    BY <1>3, <1>6
  <2> HIDE DEF k
  <2>4. CallMoves(p) /\ ~Out(p)' /\ proc'[p].pc = "list"
    BY <1>1, <2>2, <2>3, AdvanceFacts DEF Places
  <2>5. SameMoves(p)
    BY <1>1, <1>3, <1>6, <2>4 DEF SameMoves, VersionOK, Final
  <2> QED
    BY <1>1, <1>2, <2>4, <2>5, CallStepInv
<1> QED
  BY <1>4, <1>5, <1>6 DEF Load

\* The copy, again; only where an interface was refused
LEMMA DenyInv == ASSUME IInv, NEW p \in Procs, Deny(p) PROVE IInv' /\ Stays
<1>1. /\ UNCHANGED <<owner, old, reuse, wechat>> /\ proc[p].pc = "deny" /\ DeniedOK /\ OwnersKept
      /\ UNCHANGED <<calls, errors, denials, events, budget>>
  BY Unchanged DEF Deny
<1>2. CASE Write(ManualFallback(proc[p].copy)) /\ End(p, TRUE) /\ UNCHANGED faults
  <2> DEFINE k == proc[p].copy
             r == ManualFallback(k)
  <2>1. k \in Publication /\ CallOK(proc[p], owner)
    BY DEF IInv, Body, TypeOK, CallState
  <2>2. /\ r \in Publication /\ r.st = "awaiting_manual" /\ r.manual = TRUE /\ r.art = k.art
        /\ r.tok = k.tok /\ r.polls = k.polls
    BY <2>1, FallbackFacts
  <2>3. (k.art # None => owner[k.art] = "this") /\ (k.tok # None => k.polls = 0)
        /\ budget.denials # 0
    BY <1>1, <2>1 DEF CallOK
  <2>4. Write(r)
    BY <1>2
  <2> HIDE DEF k, r
  <2>5. QuietRow(r, owner')
    BY <1>1, <2>2, <2>3, HandedOver
  <2>6. BoundsOK
    BY <1>1, <1>2, Unchanged DEF bounds
  <2> QED
    BY <1>1, <1>2, <2>4, <2>5, <2>6, WriteFacts, EndFacts, CallStepInv
<1>3. CASE Fault /\ Keep /\ End(p, FALSE)
  <2>1. CallMoves(p) /\ ~Out(p)' /\ proc'[p].pc \in {"idle", "defer"}
    BY <1>3, EndFacts
  <2>2. SameMoves(p) /\ row' = row
    BY <1>3, <2>1, KeepFacts DEF VersionOK, Keep
  <2>3. BoundsOK
    BY <1>1, <1>3, Spending
  <2> QED
    BY <1>1, <2>1, <2>2, <2>3, RowAsItIs, CallStepInv
<1> QED
  BY <1>2, <1>3 DEF Deny

\* What a call that has asked WeChat knows of the row while its version is the row's
LEMMA Known ==
  ASSUME IInv, NEW p \in Procs, same[p], proc[p].pc \in {"list", "drafts", "bind", "match"}
  PROVE  row.st \notin Final /\ row.manual = FALSE
<1>1. row \in Publication /\ RowOK(row, owner) /\ VersionOK(proc[p], row.st)
  BY DEF IInv, Body, TypeOK
<1> QED
  BY <1>1 DEF VersionOK, RowOK, Final, Publication

\* The verdicts that leave the submission as it is on record
Verdict(r) ==
  /\ r \in Publication
  /\ r.sub = row.sub /\ r.pid = row.pid /\ r.manual = row.manual /\ r.art = row.art
  /\ r.tok = row.tok /\ r.polls = row.polls
  /\ \/ r.st \in {"publish_submitting", "needs_selection", "publish_failed", "unsupported", row.st}
     \/ r.st = "drafted" /\ ~Evidence(row)

LEMMA VerdictKept ==
  ASSUME IInv, UNCHANGED owner, NEW p \in Procs, same[p],
         proc[p].pc \in {"list", "drafts", "bind", "match"}, NEW r, Verdict(r)
  PROVE  QuietRow(r, owner')
<1>1. row.st \notin Final /\ RowOK(row, owner)
  BY Known DEF IInv, Body
<1> QED
  BY <1>1, Edited DEF Verdict, Final, RowOK

LEMMA ListPublishesInv == ASSUME IInv, NEW p \in Procs, ListPublishes(p) PROVE IInv' /\ Stays
<1>1. /\ UNCHANGED <<owner, old, reuse, wechat>> /\ OwnersKept /\ BoundsOK /\ DeniedOK
      /\ proc[p].pc = "list"
  <2>1. Body
    BY DEF IInv
  <2>2. DeniedOK
    BY <2>1 DEF ListPublishes, DeniedOK, Body, TypeOK
  <2> QED
    BY <2>2, Unchanged DEF ListPublishes
<1>2. same[p] => VersionOK(proc[p], row.st)
  BY DEF IInv, Body
<1>3. row \in Publication /\ old \in BOOLEAN /\ live \subseteq Articles
  BY DEF IInv, Body, TypeOK
<1>4. CASE Keep /\ \E a \in Matches : proc' = [proc EXCEPT ![p].pc = "bind", ![p].art = a]
  <2>1. PICK a \in Matches : proc' = [proc EXCEPT ![p].pc = "bind", ![p].art = a]
    BY <1>4
  <2>2. a \in Articles
    BY <1>3, <2>1 DEF Matches
  <2>3. CallMoves(p) /\ ~Out(p)' /\ proc'[p].pc = "bind"
    BY <1>1, <2>1, <2>2, FoundFacts
  <2>4. SameMoves(p) /\ row' = row
    BY <1>1, <1>2, <1>4, <2>3, KeepFacts DEF VersionOK, Keep
  <2> QED
    BY <1>1, <2>3, <2>4, RowAsItIs, CallStepInv
<1>5. CASE /\ End(p, FALSE)
           /\ CAS(p, [row EXCEPT !.st = "needs_selection", !.cand = Candidates, !.due = ~old])
  <2> DEFINE r == [row EXCEPT !.st = "needs_selection", !.cand = Candidates, !.due = ~old]
  <2>1. Candidates \subseteq Articles
    BY <1>3 DEF Candidates
  <2>2. Verdict(r)
    BY <1>3, <2>1 DEF Verdict, Publication
  <2>3. CAS(p, r)
    BY <1>5
  <2> HIDE DEF r
  <2>4. QuietRow(row', owner') /\ SameMoves(p)
    BY <1>1, <2>2, <2>3, VerdictKept, CASFacts
  <2> QED
    BY <1>1, <1>5, <2>4, EndFacts, CallStepInv
<1>6. CASE Goto(p, "drafts") /\ Keep
  <2>1. CallMoves(p) /\ ~Out(p)' /\ proc'[p].pc = "drafts"
    BY <1>1, <1>6, GotoFacts DEF Places
  <2>2. SameMoves(p) /\ row' = row
    BY <1>1, <1>2, <1>6, <2>1, KeepFacts DEF VersionOK, Keep
  <2> QED
    BY <1>1, <2>1, <2>2, RowAsItIs, CallStepInv
<1> QED
  BY <1>4, <1>5, <1>6 DEF ListPublishes

LEMMA UnsupportedFacts ==
  ASSUME IInv, NEW code \in {"48001", "other"}
  PROVE  Verdict(UnsupportedRow(row, code))
BY DEF IInv, Body, TypeOK, Verdict, UnsupportedRow, Publication

LEMMA ListFailsInv == ASSUME IInv, NEW p \in Procs, ListFails(p) PROVE IInv' /\ Stays
<1>1. /\ UNCHANGED <<owner, old, reuse, wechat>> /\ OwnersKept /\ proc[p].pc \in {"list", "drafts"}
      /\ UNCHANGED <<calls, faults, events, budget>>
  BY Unchanged DEF ListFails
<1>2. same[p] \in BOOLEAN /\ (same[p] \/ Settled) \in BOOLEAN
  BY DEF IInv, Body, TypeOK, Settled
<1>3. CASE /\ Denied48001 /\ denied' = denied \cup {"query"}
           /\ CAS(p, ManualFallback(row)) /\ End(p, same[p] \/ Settled)
  <2>1. BoundsOK /\ budget.denials # 0
    BY <1>1, <1>3, Spending
  <2>2. DeniedOK
    BY <1>3, <2>1 DEF DeniedOK, IInv, Body, TypeOK
  <2>3. QuietRow(row', owner') /\ SameMoves(p)
    BY <1>1, <1>3, <2>1, RowHandedOver, CASFacts
  <2> QED
    BY <1>1, <1>2, <1>3, <2>1, <2>2, <2>3, EndFacts, CallStepInv
<1>4. CASE /\ ReadFails /\ UNCHANGED denied
           /\ CAS(p, UnsupportedRow(row, "other")) /\ End(p, same[p] \/ Settled)
  <2>1. BoundsOK /\ DeniedOK
    BY <1>1, <1>4, Spending, Unchanged
  <2>2. QuietRow(row', owner') /\ SameMoves(p)
    BY <1>1, <1>4, UnsupportedFacts, VerdictKept, CASFacts
  <2> QED
    BY <1>1, <1>2, <1>4, <2>1, <2>2, EndFacts, CallStepInv
<1>5. CASE ReadFails /\ denied' = denied \ {"query"} /\ Leave(p) /\ End(p, FALSE)
  <2>1. BoundsOK
    BY <1>1, <1>5, Spending
  <2>2. DeniedOK
    BY <1>5 DEF DeniedOK, IInv, Body, TypeOK
  <2> QED
    BY <1>1, <1>5, <2>1, <2>2, LeaveFacts, RowAsItIs, EndFacts, CallStepInv
<1> QED
  BY <1>3, <1>4, <1>5 DEF ListFails

LEMMA ListDraftsInv == ASSUME IInv, NEW p \in Procs, ListDrafts(p) PROVE IInv' /\ Stays
<1>1. /\ UNCHANGED <<owner, old, reuse, wechat>> /\ OwnersKept /\ DeniedOK /\ BoundsOK
      /\ proc[p].pc = "drafts"
  BY Unchanged DEF ListDrafts
<1>2. row \in Publication /\ old \in BOOLEAN /\ same[p] \in BOOLEAN
  BY DEF IInv, Body, TypeOK
<1>3. CASE /\ End(p, IF same[p] THEN old ELSE Settled)
           /\ CAS(p, IF old THEN [row EXCEPT !.st = "publish_failed", !.due = FALSE]
                     ELSE [row EXCEPT !.st = "publish_submitting", !.due = TRUE])
  <2> DEFINE r == IF old THEN [row EXCEPT !.st = "publish_failed", !.due = FALSE]
                  ELSE [row EXCEPT !.st = "publish_submitting", !.due = TRUE]
  <2>1. Verdict([row EXCEPT !.st = "publish_failed", !.due = FALSE])
    BY <1>2 DEF Verdict, Publication
  <2>2. Verdict([row EXCEPT !.st = "publish_submitting", !.due = TRUE])
    BY <1>2 DEF Verdict, Publication
  <2>3. Verdict(r) /\ CAS(p, r)
    BY <1>3, <2>1, <2>2
  <2> HIDE DEF r
  <2>4. QuietRow(row', owner') /\ SameMoves(p)
    BY <1>1, <2>3, VerdictKept, CASFacts
  <2>5. (IF same[p] THEN old ELSE Settled) \in BOOLEAN
    BY <1>2 DEF Settled
  <2>6. CallMoves(p) /\ ~Out(p)'
    BY <1>3, <2>5, EndFacts
  <2> QED
    BY <1>1, <2>4, <2>6, CallStepInv
<1>4. CASE Leave(p) /\ End(p, FALSE)
  BY <1>1, <1>4, LeaveFacts, RowAsItIs, EndFacts, CallStepInv
<1>5. CASE Leave(p) /\ Goto(p, "claim")
  <2>1. CallMoves(p) /\ ~Out(p)'
    BY <1>1, <1>5, GotoFacts DEF Places
  <2> QED
    BY <1>1, <1>5, <2>1, LeaveFacts, RowAsItIs, CallStepInv
<1> QED
  BY <1>3, <1>4, <1>5 DEF ListDrafts

\* What is claimed stands for a draft that nobody is submitting.
LEMMA MayClaimFacts ==
  ASSUME IInv, MayClaim
  PROVE  Resubmittable(row) /\ accepted = 0 /\ \A p \in Procs : ~Out(p)
<1>1. row \in Publication /\ RowOK(row, owner) /\ OutInv /\ row.st = "drafted"
  BY DEF IInv, Body, TypeOK, MayClaim
<1>2. Resubmittable(row)
  BY <1>1 DEF RowOK, Resubmittable
<1> QED
  BY <1>1, <1>2 DEF OutInv

LEMMA ClaimedFacts ==
  ASSUME IInv, NEW p \in Procs, MayClaim, UNCHANGED owner, NEW r,
         r \in {Claimed(p), Release(p, Claimed(p))}
  PROVE  QuietRow(r, owner') /\ r.sub = TRUE /\ r.st = "publish_submitting"
<1>1. /\ row \in Publication /\ RowOK(row, owner) /\ row.st = "drafted" /\ 0 \in 0..MaxPolls
  BY PublishAssumption DEF IInv, Body, TypeOK, MayClaim
<1>2. Claimed(p) \in Publication
  BY <1>1 DEF Claimed, Publication
<1>3. /\ Claimed(p).st = "publish_submitting" /\ Claimed(p).sub = TRUE /\ Claimed(p).polls = 0
      /\ Claimed(p).manual = row.manual /\ Claimed(p).art = row.art
  BY <1>1 DEF Claimed, Publication
<1>4. LET q == Release(p, Claimed(p)) IN
      /\ q \in Publication /\ q.st = "publish_submitting" /\ q.sub = TRUE /\ q.polls = 0
      /\ q.manual = row.manual /\ q.art = row.art
  BY <1>2, <1>3, ReleaseFacts
<1>5. /\ r \in Publication /\ r.st = "publish_submitting" /\ r.sub = TRUE /\ r.polls = 0
      /\ r.manual = row.manual /\ r.art = row.art
  BY <1>2, <1>3, <1>4
<1> QED
  BY <1>1, <1>5 DEF QuietRow, GoodRow, RowOK, Resubmittable, Evidence

LEMMA ClaimPublishInv == ASSUME IInv, NEW p \in Procs, ClaimPublish(p) PROVE IInv' /\ Stays
<1>1. /\ UNCHANGED <<owner, reuse, wechat>> /\ OwnersKept /\ DeniedOK /\ proc[p].pc = "claim"
      /\ UNCHANGED <<calls, errors, denials, events, budget>>
  BY Unchanged DEF ClaimPublish
<1>2. proc[p] \in CallState /\ CallOK(proc[p], owner) /\ proc \in [Procs -> CallState]
  BY DEF IInv, Body, TypeOK
<1>3. old' \in BOOLEAN => AroundOK
  BY <1>1 DEF IInv, Body, TypeOK, AroundOK, wechat
<1>4. CASE MayClaim /\ Write(Claimed(p)) /\ old' = FALSE /\ Goto(p, "submit") /\ UNCHANGED faults
  <2> DEFINE k == [proc[p] EXCEPT !.pc = "submit"]
  <2>1. k \in CallState /\ k.pc = "submit" /\ k.copy = proc[p].copy
    BY <1>2 DEF CallState
  <2>2. proc' = [proc EXCEPT ![p] = k]
    BY <1>4 DEF Goto
  <2> HIDE DEF k
  <2>3. CallOK(k, owner')
    BY <1>1, <1>2, <2>1 DEF CallOK
  <2>4. CallMoves(p) /\ proc'[p].pc = "submit"
    BY <2>1, <2>2, <2>3, SetFacts
  <2>5. QuietRow(row', owner') /\ row'.sub = TRUE /\ SameMoves(p)
    BY <1>1, <1>4, ClaimedFacts, WriteFacts
  <2>6. AroundOK /\ BoundsOK /\ accepted' = accepted /\ accepted \in 0..2
    BY <1>1, <1>3, <1>4, Unchanged DEF bounds, wechat
  <2>7. Body' /\ Stays
    BY <1>1, <2>4, <2>5, <2>6, BodyInv DEF QuietRow
  <2>8. accepted = 0 /\ \A q \in Procs : ~Out(q)
    BY <1>4, MayClaimFacts
  <2>9. \A q \in Procs : Out(q)' => q = p
    BY <2>4, <2>8 DEF CallMoves, Out
  <2>10. OutInv'
    BY <2>5, <2>6, <2>8, <2>9 DEF OutInv, Resubmittable, Evidence
  <2> QED
    BY <2>7, <2>10 DEF IInv
<1>5. CASE ~MayClaim /\ Keep /\ End(p, Settled) /\ UNCHANGED <<old, faults>>
  <2>1. CallMoves(p) /\ ~Out(p)' /\ proc'[p].pc \in {"idle", "defer"}
    BY <1>5, EndFacts DEF Settled
  <2>2. SameMoves(p) /\ row' = row
    BY <1>5, <2>1, KeepFacts DEF VersionOK, Keep
  <2>3. BoundsOK
    BY <1>1, <1>5, Unchanged DEF bounds
  <2> QED
    BY <1>1, <1>5, <2>1, <2>2, <2>3, RowAsItIs, CallStepInv
<1>6. CASE MayClaim /\ Fault /\ End(p, FALSE) /\ old' = FALSE /\ Write(Release(p, Claimed(p)))
  <2>1. CallMoves(p) /\ ~Out(p)'
    BY <1>6, EndFacts
  <2>2. QuietRow(row', owner') /\ SameMoves(p)
    BY <1>1, <1>6, ClaimedFacts, WriteFacts
  <2>3. AroundOK /\ BoundsOK /\ accepted' = accepted
    BY <1>1, <1>3, <1>6, Spending DEF wechat
  <2> QED
    BY <1>1, <2>1, <2>2, <2>3, QuietInv
<1> QED
  BY <1>4, <1>5, <1>6 DEF ClaimPublish

LEMMA SubmitInv == ASSUME IInv, NEW p \in Procs, SubmitFreePublish(p) PROVE IInv' /\ Stays
<1> DEFINE Outs == {"accepted", "lost", "unknown", "48001", "other"}
<1>1. /\ UNCHANGED <<row, same, owner, old, reuse, draft, live>> /\ OwnersKept
      /\ proc[p].pc = "submit" /\ UNCHANGED <<calls, faults, events, budget>>
  BY Unchanged DEF SubmitFreePublish
<1>2. PICK out \in Outs :
        /\ out = "other" => errors < budget.errors
        /\ IF out = "48001" THEN Denied48001
           ELSE errors' = errors + (IF out = "other" THEN 1 ELSE 0) /\ UNCHANGED denials
        /\ proc' = [proc EXCEPT ![p].pc = "save", ![p].out = out]
        /\ IF out \in {"accepted", "lost"} THEN accepted' = accepted + 1 /\ wx' = "auditing"
           ELSE UNCHANGED <<accepted, wx>>
        /\ denied' = CASE out = "48001" -> denied \cup {"submit"}
                       [] out \in {"accepted", "lost", "unknown"} -> denied \ {"submit"}
                       [] OTHER -> denied
  BY DEF SubmitFreePublish
<1>3. /\ proc[p] \in CallState /\ CallOK(proc[p], owner) /\ proc \in [Procs -> CallState]
      /\ denied \subseteq {"submit", "query"} /\ (budget.denials = 0 => denied = {}) /\ OutInv
  BY DEF IInv, Body, TypeOK
<1>4. BoundsOK /\ (out = "48001" => budget.denials # 0)
  <2>1. CASE out = "48001"
    BY <1>1, <1>2, <2>1, Spending
  <2>2. CASE out = "other"
    BY <1>1, <1>2, <2>2, Spending DEF ReadFails
  <2>3. CASE out \in {"accepted", "lost", "unknown"}
    <3>1. errors' = errors + 0 /\ errors \in Int
      BY <1>2, <2>3 DEF IInv, Body, TypeOK
    <3> QED
      BY <1>1, <1>2, <2>3, <3>1, Spending DEF NoError
  <2> QED
    BY <2>1, <2>2, <2>3
<1>5. DeniedOK
  <2>1. denied' \subseteq {"submit", "query"}
    BY <1>2, <1>3
  <2>2. budget.denials = 0 => denied' = {}
    BY <1>2, <1>3, <1>4
  <2> QED
    BY <2>1, <2>2 DEF DeniedOK
<1>6. CallMoves(p) /\ proc'[p].pc = "save" /\ proc'[p].out = out
  <2> DEFINE k == [proc[p] EXCEPT !.pc = "save", !.out = out]
  <2>1. k \in CallState /\ k.pc = "save" /\ k.out = out /\ k.copy = proc[p].copy
    BY <1>3 DEF CallState
  <2>2. proc' = [proc EXCEPT ![p] = k]
    BY <1>2, <1>3
  <2> HIDE DEF k
  <2>3. CallOK(k, owner')
    BY <1>1, <1>3, <1>4, <2>1 DEF CallOK
  <2> QED
    BY <2>1, <2>2, <2>3, SetFacts
\* Only one call is out, and what it submits is the first to be accepted.
<1>7. /\ ~Resubmittable(row) /\ accepted = 0
      /\ \A q \in Procs : Out(q)' => q = p
  <2>1. Out(p) /\ accepted \in 0..2
    BY <1>1, Unchanged DEF Out
  <2>2. \A q \in Procs : Out(q) => q = p
    BY <1>3, <2>1 DEF OutInv
  <2>3. accepted = 0 /\ ~Resubmittable(row)
    BY <1>1, <1>3, <2>1 DEF OutInv
  <2> QED
    BY <1>6, <2>2, <2>3 DEF CallMoves, Out
<1>8. /\ accepted' \in 0..1
      /\ accepted' > 0 => out \in {"accepted", "lost"}
      /\ wx' \in {None, "auditing", "success", "rejected"}
  BY <1>2, <1>7 DEF IInv, Body, TypeOK
<1>9. SameMoves(p) /\ QuietRow(row', owner')
  BY <1>1, <1>6, KeepFacts, RowAsItIs DEF VersionOK
<1>10. AroundOK
  BY <1>1, <1>8 DEF AroundOK, IInv, Body, TypeOK
<1>11. Body' /\ Stays
  BY <1>1, <1>4, <1>5, <1>6, <1>8, <1>9, <1>10, BodyInv DEF QuietRow
<1>12. OutInv'
  <2>1. ~Resubmittable(row)'
    BY <1>1, <1>7 DEF Resubmittable, Evidence
  <2> QED
    BY <1>6, <1>7, <1>8, <2>1 DEF OutInv
<1> QED
  BY <1>11, <1>12 DEF IInv

\* The row after the answer may be submitted again only if the answer was a refusal.
LEMMA AnsweredFacts ==
  ASSUME IInv, UNCHANGED owner, NEW p \in Procs, proc[p].pc = "save", row.tok = p,
         row.st = "publish_submitting"
  PROVE  LET r == Answered(proc[p].out) IN
         /\ GoodRow(r, owner') /\ r.tok = None
         /\ Resubmittable(r) => proc[p].out = "other"
<1> DEFINE out == proc[p].out
           r == Answered(out)
           q == [row EXCEPT !.tok = None]
<1>1. row \in Publication /\ RowOK(row, owner) /\ CallOK(proc[p], owner) /\ OutInv
  BY DEF IInv, Body, TypeOK
<1>2. row.polls = 0 /\ 0 < MaxPolls /\ row.manual = FALSE /\ ~Resubmittable(row)
  <2>1. row.tok # None
    BY RestFacts
  <2>2. Out(p)
    BY DEF Out
  <2>3. row.polls = 0 /\ row.manual = FALSE
    BY <1>1, <2>1 DEF RowOK, Publication
  <2>4. ~Resubmittable(row)
    BY <1>1, <2>2 DEF OutInv
  <2> QED
    BY <2>3, <2>4, PublishAssumption
<1>3. Evidence(row)
  BY <1>2 DEF Resubmittable
<1>4. /\ q \in Publication /\ q.st = "publish_submitting" /\ q.tok = None /\ q.sub = row.sub
      /\ q.pid = row.pid /\ q.manual = FALSE /\ q.art = row.art /\ q.polls = 0
  BY <1>1, <1>2 DEF Publication
<1> HIDE DEF q
<1>5. CASE out = "accepted"
  <2>1. r = [q EXCEPT !.st = "publishing", !.pid = TRUE, !.due = TRUE]
    BY <1>5 DEF Answered, q
  <2>2. /\ r \in Publication /\ r.st = "publishing" /\ r.tok = None /\ r.pid = TRUE
        /\ r.manual = FALSE /\ r.art = row.art /\ r.polls = 0
    BY <1>4, <2>1 DEF Publication
  <2> HIDE DEF r
  <2> QED
    BY <1>1, <1>2, <2>2 DEF GoodRow, RowOK, Resubmittable, Evidence, r
<1>6. CASE out = "48001"
  <2> DEFINE m == ManualFallback(q)
  <2>1. r = [m EXCEPT !.sub = FALSE]
    BY <1>6 DEF Answered, q
  <2>4. /\ m \in Publication /\ m.st = "awaiting_manual" /\ m.tok = None /\ m.manual = TRUE
        /\ m.art = row.art
    BY <1>4, FallbackFacts
  <2> HIDE DEF m
  <2>2. /\ r \in Publication /\ r.st = "awaiting_manual" /\ r.tok = None /\ r.manual = TRUE
        /\ r.art = row.art
    BY <2>1, <2>4 DEF Publication
  <2>3. budget.denials # 0
    BY <1>1, <1>6 DEF CallOK
  <2> HIDE DEF r
  <2> QED
    BY <1>1, <2>2, <2>3 DEF GoodRow, RowOK, Resubmittable, r
<1>7. CASE out = "other"
  <2>1. r = [[q EXCEPT !.st = "unsupported", !.code = "other", !.due = FALSE] EXCEPT !.sub = FALSE]
    BY <1>7 DEF Answered, UnsupportedRow, q
  <2>2. /\ r \in Publication /\ r.st = "unsupported" /\ r.tok = None /\ r.manual = FALSE
        /\ r.art = row.art
    BY <1>4, <2>1 DEF Publication
  <2> HIDE DEF r
  <2>3. GoodRow(r, owner')
    BY <1>1, <2>2 DEF GoodRow, RowOK
  <2> QED
    BY <1>7, <2>2, <2>3 DEF r
<1>8. CASE out \notin {"accepted", "48001", "other"}
  <2>1. r = [q EXCEPT !.due = TRUE]
    BY <1>8 DEF Answered, q
  <2>2. /\ r \in Publication /\ r.st = "publish_submitting" /\ r.tok = None /\ r.manual = FALSE
        /\ r.art = row.art /\ r.sub = row.sub /\ r.pid = row.pid
    BY <1>4, <2>1 DEF Publication
  <2> HIDE DEF r
  <2> QED
    BY <1>1, <1>3, <2>2 DEF GoodRow, RowOK, Resubmittable, Evidence, r
<1> QED
  BY <1>5, <1>6, <1>7, <1>8

LEMMA SaveSubmitInv == ASSUME IInv, NEW p \in Procs, SaveSubmit(p) PROVE IInv' /\ Stays
<1>1. /\ UNCHANGED <<owner, old, reuse, wechat>> /\ OwnersKept /\ DeniedOK /\ AroundOK
      /\ proc[p].pc = "save" /\ UNCHANGED <<calls, errors, denials, events, budget>>
      /\ accepted' = accepted /\ accepted \in 0..2
  BY Unchanged DEF SaveSubmit, wechat
<1>2. CASE /\ row.tok = p /\ row.st = "publish_submitting" /\ Write(Answered(proc[p].out))
           /\ UNCHANGED faults /\ End(p, proc[p].out \in {"accepted", "48001", "other"})
  <2>1. /\ GoodRow(row', owner') /\ row'.tok = None
        /\ Resubmittable(row)' => proc[p].out = "other"
    BY <1>1, <1>2, AnsweredFacts, WriteFacts DEF Resubmittable, Evidence
  <2>2. CallMoves(p) /\ ~Out(p)' /\ SameMoves(p) /\ BoundsOK
    <3> DEFINE ok == proc[p].out \in {"accepted", "48001", "other"}
    <3>1. ok \in BOOLEAN /\ End(p, ok)
      BY <1>2
    <3> HIDE DEF ok
    <3> QED
      BY <1>1, <1>2, <3>1, EndFacts, WriteFacts, Unchanged DEF bounds
  <2>3. Body' /\ Stays
    BY <1>1, <2>1, <2>2, BodyInv
  <2>4. OutInv /\ Out(p)
    BY <1>1 DEF IInv, Out
  <2>5. \A q \in Procs : ~Out(q)'
    <3>1. \A q \in Procs : Out(q) => q = p
      BY <2>4 DEF OutInv
    <3> QED
      BY <2>2, <3>1 DEF CallMoves, Out
  <2>6. Resubmittable(row)' => accepted' = 0
    BY <1>1, <2>1, <2>4 DEF OutInv
  <2>7. OutInv'
    BY <1>1, <2>1, <2>4, <2>5, <2>6 DEF OutInv
  <2> QED
    BY <2>3, <2>7 DEF IInv
<1>3. CASE row' = Release(p, row) /\ End(p, FALSE) /\ UNCHANGED same /\ (Fault \/ UNCHANGED faults)
  <2>1. CallMoves(p) /\ ~Out(p)' /\ proc'[p].pc \in {"idle", "defer"}
    BY <1>3, EndFacts
  <2>2. QuietRow(row', owner') /\ row'.st = row.st
    BY <1>1, <1>3, Released
  <2>3. SameMoves(p)
    BY <1>3, <2>1, <2>2 DEF SameMoves, VersionOK, IInv, Body, TypeOK
  <2>4. BoundsOK
    BY <1>1, <1>3, Spending, Unchanged DEF bounds
  <2> QED
    BY <1>1, <2>1, <2>2, <2>3, <2>4, CallStepInv
<1> QED
  BY <1>2, <1>3 DEF SaveSubmit

LEMMA BindInv == ASSUME IInv, NEW p \in Procs, Bind(p) PROVE IInv' /\ Stays
<1> DEFINE a == proc[p].art
<1>1. /\ UNCHANGED <<old, reuse, wechat>> /\ DeniedOK /\ AroundOK /\ BoundsOK
      /\ accepted' = accepted /\ proc[p].pc = "bind"
  BY Unchanged DEF Bind, wechat
<1>2. /\ row \in Publication /\ owner \in Owners /\ a \in Articles \cup {None}
      /\ RowOK(row, owner)
  BY DEF IInv, Body, TypeOK, Owners, CallState
<1>3. CASE MayBind(a) /\ same[p]
  <2> DEFINE r == [row EXCEPT !.st = "published", !.art = a, !.due = FALSE, !.cand = {}]
  <2>1. /\ owner' = [owner EXCEPT ![a] = IF @ = None THEN "this" ELSE @] /\ End(p, TRUE)
        /\ Write(r)
    BY <1>3 DEF Bind
  <2>2. row.manual = FALSE
    BY <1>1, <1>3, Known
  <2>3. /\ r \in Publication /\ r.st = "published" /\ r.art = a /\ r.manual = FALSE
        /\ r.tok = row.tok /\ r.polls = row.polls
    BY <1>2, <2>2 DEF Publication
  <2> HIDE DEF r
  <2>4. OwnersKept
    BY <1>2, <2>1 DEF OwnersKept, Owners, None
  <2>5. a # None => owner'[a] = "this"
    BY <1>2, <1>3, <2>1 DEF MayBind, Owners
  <2>6. QuietRow(row', owner')
    BY <1>2, <2>1, <2>3, <2>5, WriteFacts DEF QuietRow, GoodRow, RowOK, Resubmittable
  <2>7. CallMoves(p) /\ ~Out(p)' /\ SameMoves(p)
    BY <2>1, EndFacts, WriteFacts
  <2> QED
    BY <1>1, <2>4, <2>6, <2>7, QuietInv
<1>4. CASE ~(MayBind(a) /\ same[p])
  <2>1. Leave(p) /\ End(p, MayBind(a) /\ Settled) /\ UNCHANGED owner
    BY <1>4 DEF Bind
  <2>2. CallMoves(p) /\ ~Out(p)' /\ SameMoves(p) /\ row' = row
    BY <2>1, EndFacts, LeaveFacts DEF Settled
  <2> QED
    BY <1>1, <2>1, <2>2, RowAsItIs, Unchanged, CallStepInv
<1> QED
  BY <1>3, <1>4

LEMMA DeferInv == ASSUME IInv, NEW p \in Procs, Defer(p) PROVE IInv' /\ Stays
<1>1. /\ UNCHANGED <<owner, old, reuse, wechat>> /\ OwnersKept /\ DeniedOK /\ BoundsOK
      /\ proc' = [proc EXCEPT ![p] = Idle]
  BY Unchanged DEF Defer
<1>2. CallMoves(p) /\ ~Out(p)' /\ proc'[p].pc = "idle"
  BY <1>1, RestFacts, BeginFacts
<1>3. CASE Keep
  <2>1. SameMoves(p) /\ row' = row
    BY <1>2, <1>3, KeepFacts DEF VersionOK, Keep
  <2> QED
    BY <1>1, <1>2, <2>1, RowAsItIs, CallStepInv
<1>4. CASE /\ row.st = "drafted" /\ ~Evidence(row)
           /\ Write([row EXCEPT !.mode = "direct", !.due = TRUE])
  <2> DEFINE r == [row EXCEPT !.mode = "direct", !.due = TRUE]
  <2>1. row \in Publication
    BY DEF IInv, Body, TypeOK
  <2>2. /\ r \in Publication /\ r.st = "drafted" /\ r.sub = row.sub /\ r.pid = row.pid
        /\ r.manual = row.manual /\ r.art = row.art /\ r.tok = row.tok /\ r.polls = row.polls
    BY <1>4, <2>1 DEF Publication
  <2>3. Write(r)
    BY <1>4
  <2> HIDE DEF r
  <2>4. QuietRow(row', owner') /\ SameMoves(p)
    BY <1>1, <1>4, <2>2, <2>3, Edited, WriteFacts
  <2> QED
    BY <1>1, <1>2, <2>4, CallStepInv
<1> QED
  BY <1>3, <1>4 DEF Defer

-----------------------------------------------------------------------------
(* The poller and the reconciler                                             *)

\* A call that begins with the version that it has just read
LEMMA LoadedFacts ==
  ASSUME IInv, NEW p \in Procs, same' = [same EXCEPT ![p] = TRUE], row' = row,
         VersionOK(proc'[p], row.st)
  PROVE  SameMoves(p)
BY DEF SameMoves, IInv, Body, TypeOK

LEMMA LoadPublishingInv == ASSUME IInv, LoadPublishing PROVE IInv' /\ Stays
<1>1. /\ "poller" \in Procs /\ UNCHANGED <<row, owner, old, reuse, wechat>> /\ OwnersKept
      /\ DeniedOK /\ BoundsOK
  BY RestFacts, Unchanged DEF LoadPublishing
<1>2. /\ Goto("poller", "poll") /\ same' = [same EXCEPT !["poller"] = TRUE]
      /\ row.st = "publishing"
  BY DEF LoadPublishing
<1>3. CallMoves("poller") /\ ~Out("poller")' /\ proc'["poller"].pc = "poll"
  BY <1>1, <1>2, GotoFacts DEF Places
<1>4. SameMoves("poller")
  BY <1>1, <1>2, <1>3, LoadedFacts DEF VersionOK
<1> QED
  BY <1>1, <1>3, <1>4, RowAsItIs, CallStepInv

\* While the version that the poller has loaded is the row's, the submission is polled.
LEMMA NextPollKept ==
  ASSUME IInv, UNCHANGED owner, row.st = "publishing"
  PROVE  QuietRow(NextPoll, owner')
<1> DEFINE r == NextPoll
           q == [row EXCEPT !.polls = @ + 1]
<1>1. row \in Publication /\ RowOK(row, owner) /\ old \in BOOLEAN /\ MaxPolls \in Nat
  BY PublishAssumption DEF IInv, Body, TypeOK
<1>2. row.tok = None /\ row.polls \in 0..MaxPolls /\ row.polls < MaxPolls
  BY <1>1 DEF RowOK, Publication
<1>3. /\ q \in Publication /\ q.st = "publishing" /\ q.sub = row.sub /\ q.pid = row.pid
      /\ q.manual = row.manual /\ q.art = row.art /\ q.tok = None /\ q.polls = row.polls + 1
  <2>1. row.polls + 1 \in 0..MaxPolls
    BY <1>1, <1>2
  <2> QED
    BY <1>1, <1>2, <2>1 DEF Publication
<1> HIDE DEF q
<1>4. CASE row.polls + 1 < MaxPolls
  <2>1. r = [q EXCEPT !.due = TRUE]
    BY <1>4 DEF NextPoll, q
  <2>2. /\ r \in Publication /\ r.st = "publishing" /\ r.sub = row.sub /\ r.pid = row.pid
        /\ r.manual = row.manual /\ r.art = row.art /\ r.tok = None /\ r.polls = row.polls + 1
    BY <1>3, <2>1 DEF Publication
  <2> HIDE DEF r
  <2>3. QuietRow(r, owner')
    BY <1>4, <2>2, Edited
  <2> QED
    BY <2>3 DEF r
<1>5. CASE ~(row.polls + 1 < MaxPolls)
  <2>1. r = [q EXCEPT !.st = "publish_submitting", !.due = ~old]
    BY <1>5 DEF NextPoll, q
  <2>2. /\ r \in Publication /\ r.st = "publish_submitting" /\ r.sub = row.sub
        /\ r.pid = row.pid /\ r.manual = row.manual /\ r.art = row.art /\ r.tok = None
    BY <1>1, <1>3, <2>1 DEF Publication
  <2> HIDE DEF r
  <2>3. QuietRow(r, owner')
    BY <2>2, Edited
  <2> QED
    BY <2>3 DEF r
<1> QED
  BY <1>4, <1>5

LEMMA PollInv == ASSUME IInv, Poll PROVE IInv' /\ Stays
<1>1. /\ "poller" \in Procs /\ UNCHANGED <<owner, old, reuse, wechat>> /\ OwnersKept
      /\ DeniedOK /\ proc["poller"].pc = "poll" /\ UNCHANGED <<calls, faults, events, budget>>
  BY RestFacts, Unchanged DEF Poll
<1>2. /\ row \in Publication /\ (same["poller"] => row.st = "publishing")
      /\ proc["poller"] \in CallState
  BY <1>1 DEF IInv, Body, TypeOK, VersionOK
<1>3. ASSUME NEW r, CAS("poller", r), End("poller", TRUE), BoundsOK,
             row.st = "publishing" => QuietRow(r, owner')
      PROVE  IInv' /\ Stays
  <2>1. QuietRow(row', owner') /\ SameMoves("poller")
    BY <1>1, <1>2, <1>3, CASFacts
  <2>2. CallMoves("poller") /\ ~Out("poller")'
    BY <1>1, <1>3, EndFacts
  <2> QED
    BY <1>1, <1>3, <2>1, <2>2, CallStepInv
<1>4. CASE /\ NoError /\ Keep
           /\ proc' = [proc EXCEPT !["poller"].pc = "bind", !["poller"].art = "api"]
  <2>1. CallMoves("poller") /\ ~Out("poller")' /\ proc'["poller"].pc = "bind"
    BY <1>1, <1>4, FoundFacts DEF Articles
  <2>2. SameMoves("poller") /\ row' = row
    BY <1>1, <1>2, <1>4, <2>1, KeepFacts DEF VersionOK, Keep, Final
  <2>3. BoundsOK
    BY <1>1, <1>4, Spending
  <2> QED
    BY <1>1, <2>1, <2>2, <2>3, RowAsItIs, CallStepInv
<1>5. CASE (NoError \/ ReadFails) /\ CAS("poller", NextPoll) /\ End("poller", TRUE)
  <2>1. BoundsOK
    BY <1>1, <1>5, Spending
  <2> QED
    BY <1>1, <1>3, <1>5, <2>1, NextPollKept
<1>6. CASE /\ NoError /\ End("poller", TRUE)
           /\ CAS("poller", [row EXCEPT !.st = "publish_failed", !.due = FALSE])
  <2> DEFINE r == [row EXCEPT !.st = "publish_failed", !.due = FALSE]
  <2>1. /\ r \in Publication /\ r.st = "publish_failed" /\ r.sub = row.sub /\ r.pid = row.pid
        /\ r.manual = row.manual /\ r.art = row.art /\ r.tok = row.tok /\ r.polls = row.polls
    BY <1>2 DEF Publication
  <2>2. BoundsOK /\ CAS("poller", r)
    BY <1>1, <1>6, Spending
  <2> HIDE DEF r
  <2>3. row.st = "publishing" => QuietRow(r, owner')
    BY <1>1, <2>1, Edited
  <2> QED
    BY <1>3, <1>6, <2>2, <2>3
<1>7. CASE Denied48001 /\ CAS("poller", ManualFallback(row)) /\ End("poller", TRUE)
  <2>1. BoundsOK /\ budget.denials # 0
    BY <1>1, <1>7, Spending
  <2> QED
    BY <1>1, <1>3, <1>7, <2>1, RowHandedOver
<1> QED
  BY <1>4, <1>5, <1>6, <1>7 DEF Poll

LEMMA LoadPendingInv == ASSUME IInv, LoadPending PROVE IInv' /\ Stays
<1> DEFINE p == "reconciler"
<1>1. /\ p \in Procs /\ UNCHANGED <<owner, old, reuse, wechat>> /\ OwnersKept /\ DeniedOK /\ BoundsOK
  BY RestFacts, Unchanged DEF LoadPending
<1>2. CASE denied # {} /\ Write(ManualFallback(row)) /\ UNCHANGED proc
  <2>1. budget.denials # 0
    BY <1>2 DEF IInv, Body
  <2>2. QuietRow(row', owner') /\ SameMoves(p)
    BY <1>1, <1>2, <2>1, RowHandedOver, WriteFacts
  <2> QED
    BY <1>1, <1>2, <2>2, StillFacts, CallStepInv
<1>3. CASE Goto(p, "match") /\ row' = row /\ same' = [same EXCEPT ![p] = TRUE]
  <2>1. CallMoves(p) /\ ~Out(p)' /\ proc'[p].pc = "match"
    BY <1>1, <1>3, GotoFacts DEF Places
  <2>2. row.st \notin Final
    BY DEF LoadPending, Pending, Final
  <2>3. SameMoves(p)
    BY <1>1, <1>3, <2>1, <2>2, LoadedFacts DEF VersionOK
  <2> QED
    BY <1>1, <1>3, <2>1, <2>3, RowAsItIs, CallStepInv
<1> QED
  BY <1>2, <1>3 DEF LoadPending

LEMMA ReconciledFacts ==
  ASSUME IInv
  PROVE  Verdict(Reconciled) /\ Verdict([Reconciled EXCEPT !.due = TRUE])
<1> DEFINE r == Reconciled
<1>1. row \in Publication /\ live \subseteq Articles /\ old \in BOOLEAN
  BY DEF IInv, Body, TypeOK
<1>2. Candidates \subseteq Articles
  BY <1>1 DEF Candidates
<1>3. PICK st : /\ \/ st \in {"publish_submitting", "needs_selection", "publish_failed", row.st}
                   \/ st = "drafted" /\ ~Evidence(row)
                /\ r = [row EXCEPT !.due = ~old, !.cand = Candidates, !.st = st]
  <2> DEFINE s == CASE Candidates # {} -> "needs_selection"
                    [] Candidates = {} /\ row.st = "needs_selection" ->
                         IF Evidence(row) THEN "publish_submitting" ELSE "drafted"
                    [] OTHER -> row.st
             t == IF old /\ s = "publish_submitting" THEN "publish_failed" ELSE s
  <2>1. \/ s \in {"publish_submitting", "needs_selection", row.st}
        \/ s = "drafted" /\ ~Evidence(row)
    <3>1. CASE Candidates # {}
      BY <3>1
    <3>2. CASE Candidates = {} /\ row.st = "needs_selection"
      BY <3>2
    <3>3. CASE Candidates = {} /\ row.st # "needs_selection"
      BY <3>3
    <3> QED
      BY <3>1, <3>2, <3>3
  <2>2. r = [row EXCEPT !.due = ~old, !.cand = Candidates, !.st = t]
    BY DEF Reconciled
  <2> HIDE DEF s
  <2>3. \/ t \in {"publish_submitting", "needs_selection", "publish_failed", row.st}
        \/ t = "drafted" /\ ~Evidence(row)
    BY <2>1
  <2> QED
    BY <2>2, <2>3
<1>4. Verdict(r)
  <2>1. st \in {"drafted", "publish_submitting", "publishing", "needs_selection", "published",
                "publish_failed", "unsupported", "awaiting_manual", "skipped"}
    BY <1>1, <1>3 DEF Publication
  <2>2. /\ r \in Publication /\ r.st = st /\ r.sub = row.sub /\ r.pid = row.pid
        /\ r.manual = row.manual /\ r.art = row.art /\ r.tok = row.tok /\ r.polls = row.polls
    BY <1>1, <1>2, <1>3, <2>1 DEF Publication
  <2> QED
    BY <1>3, <2>2 DEF Verdict
<1> HIDE DEF r
<1>5. Verdict([r EXCEPT !.due = TRUE])
  BY <1>4 DEF Verdict, Publication
<1> QED
  BY <1>4, <1>5 DEF r

LEMMA ReconcileInv == ASSUME IInv, Reconcile PROVE IInv' /\ Stays
<1> DEFINE p == "reconciler"
<1>1. /\ p \in Procs /\ UNCHANGED <<owner, old, reuse, wechat>> /\ OwnersKept
      /\ DeniedOK /\ proc[p].pc = "match" /\ UNCHANGED <<calls, faults, events, budget>>
  BY RestFacts, Unchanged DEF Reconcile
<1>2. /\ row \in Publication /\ (same[p] => VersionOK(proc[p], row.st))
      /\ live \subseteq Articles
  BY <1>1 DEF IInv, Body, TypeOK
<1>3. BoundsOK
  BY <1>1, Spending DEF Reconcile
<1>4. ASSUME NEW r, CAS(p, r), Verdict(r), CallMoves(p), ~Out(p)'
      PROVE  IInv' /\ Stays
  <2>1. QuietRow(row', owner') /\ SameMoves(p)
    BY <1>1, <1>4, VerdictKept, CASFacts
  <2> QED
    BY <1>1, <1>3, <1>4, <2>1, CallStepInv
<1>5. End(p, TRUE) => CallMoves(p) /\ ~Out(p)'
  BY <1>1, EndFacts
<1>6. CASE Keep /\ \E a \in Matches : proc' = [proc EXCEPT ![p].pc = "bind", ![p].art = a]
  <2>1. PICK a \in Matches : proc' = [proc EXCEPT ![p].pc = "bind", ![p].art = a]
    BY <1>6
  <2>2. a \in Articles
    BY <1>2, <2>1 DEF Matches
  <2>3. CallMoves(p) /\ ~Out(p)' /\ proc'[p].pc = "bind"
    BY <1>1, <2>1, <2>2, FoundFacts
  <2>4. SameMoves(p) /\ row' = row
    BY <1>1, <1>2, <1>6, <2>3, KeepFacts DEF VersionOK, Keep
  <2> QED
    BY <1>1, <1>3, <2>3, <2>4, RowAsItIs, CallStepInv
<1>7. CASE CAS(p, Reconciled) /\ End(p, TRUE)
  BY <1>4, <1>5, <1>7, ReconciledFacts
<1>8. CASE CAS(p, Reconciled)
           /\ proc' = [proc EXCEPT ![p] = [Idle EXCEPT !.pc = "load", !.auto = TRUE]]
  <2> DEFINE k == [Idle EXCEPT !.pc = "load", !.auto = TRUE]
  <2>1. k \in CallState /\ k.pc = "load" /\ k.copy = Idle.copy
    BY RestFacts DEF CallState
  <2>2. proc' = [proc EXCEPT ![p] = k]
    BY <1>8
  <2> HIDE DEF k
  <2>3. CallMoves(p) /\ ~Out(p)'
    BY <1>1, <2>1, <2>2, BeginFacts
  <2> QED
    BY <1>4, <1>8, <2>3, ReconciledFacts
<1>9. CASE CAS(p, [Reconciled EXCEPT !.due = TRUE]) /\ End(p, TRUE)
  BY <1>4, <1>5, <1>9, ReconciledFacts
<1>10. CASE \E code \in {"48001", "other"} : CAS(p, UnsupportedRow(row, code)) /\ End(p, TRUE)
  BY <1>4, <1>5, <1>10, UnsupportedFacts
<1>11. CASE /\ End(p, TRUE)
            /\ CAS(p, IF old THEN [row EXCEPT !.st = "publish_failed", !.due = FALSE]
                      ELSE [row EXCEPT !.due = TRUE])
  <2>1. Verdict([row EXCEPT !.st = "publish_failed", !.due = FALSE])
    BY <1>2 DEF Verdict, Publication
  <2>2. Verdict([row EXCEPT !.due = TRUE])
    BY <1>2 DEF Verdict, Publication
  <2> QED
    BY <1>4, <1>5, <1>11, <2>1, <2>2
<1> QED
  BY <1>6, <1>7, <1>8, <1>9, <1>10, <1>11 DEF Reconcile

-----------------------------------------------------------------------------
(* WeChat, the rest of the project, time and crashes                         *)

LEMMA OutsideInv ==
  ASSUME IInv, UNCHANGED <<row, proc, same, accepted>>, OwnersKept, DeniedOK, AroundOK, BoundsOK
  PROVE  IInv' /\ Stays
<1> DEFINE p == "poller"
<1>1. p \in Procs /\ QuietRow(row', owner') /\ CallMoves(p)
  BY RestFacts, RowAsItIs, StillFacts
<1>2. SameMoves(p)
  BY <1>1, KeepFacts DEF IInv, Body
<1> QED
  BY <1>1, <1>2, QuietInv

LEMMA AuditInv == ASSUME IInv, Audit PROVE IInv' /\ Stays
<1>1. OwnersKept /\ DeniedOK /\ BoundsOK
  BY Unchanged DEF Audit
<1>2. live \subseteq Articles /\ AroundOK
  <2>1. Body
    BY DEF IInv
  <2> QED
    BY <2>1 DEF Body, TypeOK, Audit, AroundOK, Articles
<1> QED
  BY <1>1, <1>2, OutsideInv DEF Audit

LEMMA EventInv == ASSUME IInv, Console \/ Similar \/ OtherDenied PROVE IInv' /\ Stays
<1>1. /\ UNCHANGED <<row, proc, same, accepted, owner, old, reuse, wx>> /\ OwnersKept /\ BoundsOK
  BY Spending, Unchanged DEF Console, Similar, OtherDenied, Event
<1>2. Body
  BY DEF IInv
<1>3. AroundOK
  <2>1. live' \in {live, live \cup {"console"}, live \cup {"similar"}} /\ draft' \in {draft, FALSE}
    BY DEF Console, Similar, OtherDenied
  <2>2. live' \subseteq Articles
    BY <1>2, <2>1 DEF Body, TypeOK, Articles
  <2> QED
    BY <1>1, <1>2, <2>1, <2>2 DEF Body, TypeOK, AroundOK
<1>4. DeniedOK
  <2>1. CASE UNCHANGED denied
    BY <2>1, Unchanged
  <2>2. CASE OtherDenied
    BY <2>2 DEF OtherDenied, DeniedOK, Event
  <2> QED
    BY <2>1, <2>2 DEF Console, Similar
<1> QED
  BY <1>1, <1>3, <1>4, OutsideInv

\* Another publication binds only what nobody has bound.
LEMMA RivalInv == ASSUME IInv, Rival PROVE IInv' /\ Stays
<1>1. UNCHANGED <<row, proc, same, accepted>> /\ DeniedOK /\ AroundOK /\ BoundsOK
  BY Unchanged DEF Rival, wechat
<1>2. PICK a \in live : owner[a] = None /\ owner' = [owner EXCEPT ![a] = "another"]
  BY DEF Rival
<1>3. OwnersKept
  BY <1>2 DEF OwnersKept, Owners, None, IInv, Body, TypeOK
<1> QED
  BY <1>1, <1>3, OutsideInv

LEMMA OldInv == ASSUME IInv, Old PROVE IInv' /\ Stays
<1>1. /\ UNCHANGED <<row, proc, same, accepted>> /\ OwnersKept /\ DeniedOK /\ BoundsOK
  BY Unchanged DEF Old, wechat
<1>2. AroundOK
  BY DEF Old, AroundOK, wechat, IInv, Body, TypeOK
<1> QED
  BY <1>1, <1>2, OutsideInv

LEMMA CrashInv == ASSUME IInv, NEW p \in Procs, Crash(p) PROVE IInv' /\ Stays
<1>1. /\ UNCHANGED <<owner, old, reuse, wechat>> /\ OwnersKept /\ DeniedOK /\ BoundsOK
  BY Spending, Unchanged DEF Crash
<1>2. /\ proc' = [proc EXCEPT ![p] = Idle] /\ row' = Release(p, row)
      /\ same' = [same EXCEPT ![p] = FALSE]
  BY DEF Crash
<1>3. CallMoves(p) /\ ~Out(p)' /\ proc'[p].pc = "idle"
  BY <1>1, <1>2, RestFacts, BeginFacts
<1>4. QuietRow(row', owner') /\ row'.st = row.st
  BY <1>1, <1>2, Released
<1>5. SameMoves(p)
  BY <1>2, <1>4 DEF SameMoves, IInv, Body, TypeOK
<1> QED
  BY <1>1, <1>3, <1>4, <1>5, CallStepInv

-----------------------------------------------------------------------------
(* The theorems                                                              *)

LEMMA StepInv == IInv /\ Next => IInv' /\ Stays
<1> SUFFICES ASSUME IInv, Next PROVE IInv' /\ Stays
    OBVIOUS
<1>1. ASSUME NEW c \in Callers, UserCall(c) PROVE IInv' /\ Stays
  BY <1>1, UserPublishInv, AutoPublishInv, RetryPublishInv, KeepDraftInv, SkipInv, RestoreInv,
     SelectInv, BindManualInv DEF UserCall
<1>2. ASSUME NEW c \in Callers, CheckManual(c) \/ SaveManual(c) PROVE IInv' /\ Stays
  BY <1>2, CheckManualInv, SaveManualInv
<1>3. ASSUME NEW p \in Procs, PublishStep(p) PROVE IInv' /\ Stays
  BY <1>3, LoadInv, DenyInv, ListPublishesInv, ListFailsInv, ListDraftsInv, ClaimPublishInv,
     SubmitInv, SaveSubmitInv, BindInv, DeferInv DEF PublishStep
<1>4. ASSUME NEW p \in Procs, Crash(p) PROVE IInv' /\ Stays
  BY <1>4, CrashInv
<1>5. CASE LoadPublishing \/ Poll \/ LoadPending \/ Reconcile
  BY <1>5, LoadPublishingInv, PollInv, LoadPendingInv, ReconcileInv
<1>6. CASE Audit \/ Console \/ Similar \/ Rival \/ OtherDenied \/ Old
  BY <1>6, AuditInv, EventInv, RivalInv, OldInv
<1> QED
  BY <1>1, <1>2, <1>3, <1>4, <1>5, <1>6 DEF Next

LEMMA StutterInv == IInv /\ UNCHANGED vars => IInv' /\ Stays
<1> SUFFICES ASSUME IInv, UNCHANGED vars PROVE IInv' /\ Stays
    OBVIOUS
<1>1. UNCHANGED <<row, proc, same, accepted>> /\ OwnersKept /\ DeniedOK /\ AroundOK /\ BoundsOK
  BY Unchanged DEF vars, wechat
<1> QED
  BY <1>1, OutsideInv

\* What is known of every state that the publication can be in: its types, what its columns
\* say of each other, what a call may rely on, and the uniqueness of the call that submits
THEOREM Invariance == Spec => []IInv
<1>1. IInv /\ [Next]_vars => IInv'
  BY StepInv, StutterInv
<1> QED
  BY InitInv, <1>1, PTL DEF Spec

\* The record of a submission can be relied on: WeChat accepts one at most, a drafted row
\* stands for a draft of which nothing was accepted or is in doubt, what was accepted can be
\* traced, and the row names only articles that it owns (ClaimPublish, UpdateClaimed,
\* RetryPublish, bindPublished).
THEOREM SubmissionsSound == Spec => []SubmissionsAreSound
<1>1. IInv => SubmissionsAreSound
  <2> SUFFICES ASSUME IInv PROVE SubmissionsAreSound
      OBVIOUS
  <2>1. /\ TypeOK /\ row \in Publication /\ RowOK(row, owner) /\ OutInv
        /\ accepted \in 0..2
    BY DEF IInv, Body, TypeOK
  <2>2. OneSubmission /\ ArticleIsOwned
    BY <2>1 DEF OneSubmission, ArticleIsOwned, OutInv, RowOK
  <2>3. ResubmitIsSafe
    <3> SUFFICES ASSUME row.st = "drafted"
                 PROVE  /\ ~Evidence(row) /\ row.tok = None /\ accepted = 0
                        /\ \A p \in Procs : proc[p].pc \notin {"submit", "save"}
        BY DEF ResubmitIsSafe
    <3>1. Resubmittable(row)
      BY <2>1 DEF RowOK, Resubmittable
    <3> QED
      BY <2>1, <3>1 DEF OutInv, Out, Resubmittable
  <2>4. AcceptedIsOnRecord
    <3> SUFFICES ASSUME accepted > 0, ~Evidence(row), row.st # "published"
                 PROVE  row.manual /\ budget.denials > 0
        BY DEF AcceptedIsOnRecord
    <3>1. row.manual
      BY <2>1 DEF OutInv, Resubmittable, RowOK
    <3>2. budget.denials \in Nat
      BY PublishAssumption DEF IInv, Body, TypeOK
    <3> QED
      BY <2>1, <3>1, <3>2 DEF RowOK
  <2> QED
    BY <2>1, <2>2, <2>3, <2>4 DEF SubmissionsAreSound
<1> QED
  BY Invariance, <1>1, PTL

\* A published publication stays published, in a project that is never refused an interface:
\* what a call writes after WeChat's answer, it writes on the version it has read
\* (UpdateReconciliation, the transitions with an expected version).
THEOREM PublishedKept == Spec => PublishedStays
<1>1. IInv /\ [Next]_vars =>
        [budget.denials = 0 /\ row.st = "published" => row'.st = "published"]_vars
  BY StepInv, StutterInv DEF Stays
<1> QED
  BY Invariance, <1>1, PTL DEF Spec, PublishedStays
=============================================================================
