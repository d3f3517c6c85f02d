------------------------- MODULE UploadSessionsProofs -------------------------
(***************************************************************************)
(* Proofs about UploadSessions, for any media and artifact sessions,        *)
(* clients, cleaners, contents and faults.  A call and a cleaner work from  *)
(* what they have read, so the invariant says what of it still holds: an    *)
(* ETag on a row is that of the final object (RowInv); what a call has seen *)
(* of objects and row is still so, and a client's call whose Now is less    *)
(* than a minute ago holds its claim, which is as young for everybody,      *)
(* while it works on the source (CallInv); what a cleaner listed was due    *)
(* then (PassInv).                                                          *)
(***************************************************************************)
EXTENDS UploadSessions, TLAPS

Objects  == Good \cup {None}
Seen     == Contents \cup {None}
Tokens   == Procs \cup {None, Gone}
Statuses == {"pending", "finalizing", "finalized", "expiring", "expired"}

Claimers == Cleaners \cup {None, Gone}

Row == [st : Statuses, tok : Tokens, src : Seen, etag : Seen, cc : Claimers, next : BOOLEAN]

\* The steps of a call that are of a media session, of an artifact, and of either
MediaPcs    == {"find", "stat", "claim", "recover", "recordS", "recordE", "persist"}
ArtifactPcs == {"mstat", "mclaim", "mvalid", "record"}
CallPcs     == MediaPcs \cup ArtifactPcs \cup {"staging", "promote", "statF", "delete", "release"}

Calling == [pc : CallPcs, s : Sessions, st : Statuses \cup {""}, src : Seen, etag : Seen, exp : BOOLEAN,
            fin : Seen, v : Seen, prom : BOOLEAN, ok : BOOLEAN]
Resting == {NoCall, [pc |-> "done"], [pc |-> "failed"]}

Listed == [src : Seen, etag : Seen, grace : BOOLEAN, after : SUBSET Sessions]
Lists  == UNION {[S -> Listed] : S \in SUBSET Sessions}
Pass   == [pc : {"next", "stat", "recover", "claim", "delete", "reopen", "finish"},
           cur : Sessions \cup {None}, list : Lists]

UploadBudget ==
  [sessions : SUBSET Sessions, users : SUBSET Users, cleaners : SUBSET Cleaners,
   slow : SUBSET (Users \cup Cleaners), contents : SUBSET Contents, puts : Nat, calls : Nat, faults : Nat, late : BOOLEAN]

StoreTyped ==
  /\ phase \in [Sessions -> 0..2] /\ staging \in [Sessions -> Seen] /\ final \in [Sessions -> Objects]
  /\ copying \in [Sessions -> Objects] /\ asset \in [Sessions -> Seen] /\ filed \subseteq Artifacts
\* A claim is no older for a call that began earlier.
ClockTyped ==
  /\ age \in [Timed -> 0..2] /\ gap \in [Procs -> [Timed -> 0..2]]
  /\ \A p \in Procs, x \in Timed : gap[p][x] <= age[x]
RowsTyped  == row \in [Sessions -> Row]
CallsTyped == call \in [Procs -> Calling \cup Resting]
PassTyped  == clean \in [Cleaners -> Pass \cup {NoPass}]
Types      == ClockTyped /\ StoreTyped /\ RowsTyped /\ CallsTyped /\ PassTyped /\ WithinBudget

\* A recorded ETag is that of the final object, which stays; a cleaner claims what is expiring.
RowInv(s) ==
  /\ (row[s].etag # None => final[s] = row[s].etag)
  /\ (row[s].cc # None => row[s].st = "expiring")
  /\ (row[s].st = "expiring" => phase[s] > 0)
  /\ (s \in Media /\ row[s].st = "finalized" => asset[s] \in Good /\ final[s] = asset[s] /\ row[s].etag = asset[s])
  /\ (s \in Media /\ (final[s] # None \/ copying[s] # None) => row[s].src # None)
  /\ (s \in Artifacts /\ row[s].st = "expired" => phase[s] = 2 /\ staging[s] = None)
  /\ (s \in filed => final[s] # None)

\* A call works on the source of its session.
Working == {"staging", "recordS", "promote", "recover"}
OnSource(p) == call[p].pc \in Working \cup {"mvalid"}

\* The claim of u on s, which nobody finds lapsed
Held(u, s) == row[s].st = "finalizing" /\ row[s].tok = u /\ age[s] = 0 /\ \A q \in Procs : gap[q][s] = 0

\* What a call has seen of its session still holds, and a client's call holds its claim
\* while it works on the source.
CallSees(p) ==
  LET k == call[p]  s == k.s IN
  /\ (k.pc \in MediaPcs => s \in Media)
  /\ (k.pc \in ArtifactPcs => s \in Artifacts)
  /\ (k.etag # None => row[s].etag = k.etag)
  /\ (k.pc = "claim" /\ k.fin # None => k.v = k.fin /\ final[s] = k.fin /\ (k.etag # None => k.etag = k.fin))
  /\ (k.pc \in {"recordS", "promote"} => k.v \in Good)
  /\ (k.pc \in {"recover", "recordE", "persist"} => k.v \in Good /\ final[s] = k.v)
  /\ (k.pc = "promote" /\ s \in Media => row[s].src # None)
  /\ (k.pc = "persist" => row[s].etag = k.v)
  /\ (k.pc = "record" => final[s] # None)
  /\ (k.ok => s \in filed)
  /\ (k.pc = "delete" => s \in filed \/ row[s].st = "finalized")
CallInv(p) ==
  call[p].pc \in CallPcs =>
    CallSees(p) /\ (p \in Users /\ OnSource(p) /\ age[p] = 0 => Held(p, call[p].s))

\* What a cleaner listed was due then.
WasDue(s, l) == phase[s] > 0 /\ (s \in Artifacts /\ ~l.grace => phase[s] = 2)
PassSees(k) ==
  LET c == clean[k] IN
  /\ \A s \in DOMAIN c.list : WasDue(s, c.list[s])
  /\ (c.pc # "next" => c.cur \in DOMAIN c.list)
  /\ (c.pc \in {"stat", "recover"} => c.cur \in Media)
  /\ (c.pc = "finish" /\ c.cur \in Artifacts /\ ~c.list[c.cur].grace => staging[c.cur] = None)
PassInv(k) == clean[k].pc # "idle" => PassSees(k)

IInv == Types /\ (\A s \in Sessions : RowInv(s)) /\ (\A p \in Procs : CallInv(p)) /\ (\A k \in Cleaners : PassInv(k))

-----------------------------------------------------------------------------
(* What edits of records do                                                  *)

\* The names of the parts of a state are different things.
LEMMA Apart ==
  /\ Media \cap Artifacts = {} /\ Users \cap Cleaners = {} /\ Procs \cap Sessions = {} /\ Good \cap Bad = {}
  /\ None \notin Procs /\ Gone \notin Procs /\ None \notin Contents /\ None # Gone /\ Good \subseteq Contents
  /\ Budgets \subseteq UploadBudget
BY UploadAssumption DEF None, Gone, Procs, Contents, UploadBudget, Sessions

LEMMA BudgetEdits ==
  ASSUME NEW b \in UploadBudget, NEW x \in Nat, NEW y \in Nat, NEW z \in Nat, NEW w \in Nat
  PROVE  /\ [[b EXCEPT !.puts = x, !.calls = y, !.faults = z] EXCEPT !.puts = w]
              = [b EXCEPT !.puts = w, !.calls = y, !.faults = z]
         /\ [[b EXCEPT !.puts = x, !.calls = y, !.faults = z] EXCEPT !.calls = w]
              = [b EXCEPT !.puts = x, !.calls = w, !.faults = z]
         /\ [[b EXCEPT !.puts = x, !.calls = y, !.faults = z] EXCEPT !.faults = w]
              = [b EXCEPT !.puts = x, !.calls = y, !.faults = w]
BY DEF UploadBudget

Left(b, x, y, z) == [b EXCEPT !.puts = x, !.calls = y, !.faults = z]

LEMMA BudgetFields ==
  ASSUME NEW b \in UploadBudget, NEW x \in Nat, NEW y \in Nat, NEW z \in Nat
  PROVE  LET c == Left(b, x, y, z) IN c \in UploadBudget /\ c.puts = x /\ c.calls = y /\ c.faults = z
<1>1. [b EXCEPT !.puts = x, !.calls = y, !.faults = z] \in UploadBudget
  BY DEF UploadBudget
<1>2. LET c == [b EXCEPT !.puts = x, !.calls = y, !.faults = z] IN c.puts = x /\ c.calls = y /\ c.faults = z
  BY DEF UploadBudget
<1> QED
  BY <1>1, <1>2 DEF Left

Pay == \/ UNCHANGED budget
       \/ budget.puts > 0 /\ budget' = [budget EXCEPT !.puts = @ - 1]
       \/ budget.calls > 0 /\ budget' = [budget EXCEPT !.calls = @ - 1]
       \/ budget.faults > 0 /\ budget' = [budget EXCEPT !.faults = @ - 1]

\* What a step uses up is within the budget.
LEMMA Spent ==
  ASSUME WithinBudget
  PROVE  budget \in UploadBudget /\ (Pay => WithinBudget')
<1>1. PICK b \in Budgets : \E x \in 0..b.puts, y \in 0..b.calls, z \in 0..b.faults :
               budget = [b EXCEPT !.puts = x, !.calls = y, !.faults = z]
  BY Zenon DEF WithinBudget
<1>2. PICK x \in 0..b.puts, y \in 0..b.calls, z \in 0..b.faults :
               budget = [b EXCEPT !.puts = x, !.calls = y, !.faults = z]
  BY <1>1, Zenon
<1>3. b \in UploadBudget
  BY Apart
<1>4. b.puts \in Nat /\ b.calls \in Nat /\ b.faults \in Nat /\ x \in Nat /\ y \in Nat /\ z \in Nat
  BY <1>3 DEF UploadBudget
<1> DEFINE e == Left(b, x, y, z)
<1>a. e \in UploadBudget /\ e.puts = x /\ e.calls = y /\ e.faults = z
  <2>1. x \in Nat /\ y \in Nat /\ z \in Nat
    BY <1>4
  <2> QED
    BY <1>3, <2>1, BudgetFields
<1> HIDE DEF e
<1>b. budget = e
  BY <1>2 DEF e, Left
<1>5. budget \in UploadBudget /\ budget.puts = x /\ budget.calls = y /\ budget.faults = z
  BY <1>a, <1>b
<1>6. ASSUME NEW i \in 0..b.puts, NEW j \in 0..b.calls, NEW k \in 0..b.faults,
             budget' = [b EXCEPT !.puts = i, !.calls = j, !.faults = k]
      PROVE  WithinBudget'
  <2>1. \E i1 \in 0..b.puts, j1 \in 0..b.calls, k1 \in 0..b.faults :
          budget' = [b EXCEPT !.puts = i1, !.calls = j1, !.faults = k1]
    BY <1>6
  <2> QED
    BY <2>1, Zenon DEF WithinBudget
<1>7. CASE UNCHANGED budget
  BY <1>2, <1>5, <1>6, <1>7
<1>8. CASE budget.puts > 0 /\ budget' = [budget EXCEPT !.puts = @ - 1]
  <2> DEFINE w == x - 1
  <2>1. w \in 0..b.puts /\ w \in Nat
    BY <1>4, <1>5, <1>8
  <2>2. budget' = [budget EXCEPT !.puts = w]
    BY <1>5, <1>8, Zenon
  <2> HIDE DEF w
  <2>3. budget' = [b EXCEPT !.puts = w, !.calls = y, !.faults = z]
    BY <1>2, <1>3, <1>4, <2>1, <2>2, BudgetEdits
  <2> QED
    BY <1>5, <1>6, <2>1, <2>3, Zenon
<1>9. CASE budget.calls > 0 /\ budget' = [budget EXCEPT !.calls = @ - 1]
  <2> DEFINE w == y - 1
  <2>1. w \in 0..b.calls /\ w \in Nat
    BY <1>4, <1>5, <1>9
  <2>2. budget' = [budget EXCEPT !.calls = w]
    BY <1>5, <1>9, Zenon
  <2> HIDE DEF w
  <2>3. budget' = [b EXCEPT !.puts = x, !.calls = w, !.faults = z]
    BY <1>2, <1>3, <1>4, <2>1, <2>2, BudgetEdits
  <2> QED
    BY <1>5, <1>6, <2>1, <2>3, Zenon
<1>10. CASE budget.faults > 0 /\ budget' = [budget EXCEPT !.faults = @ - 1]
  <2> DEFINE w == z - 1
  <2>1. w \in 0..b.faults /\ w \in Nat
    BY <1>4, <1>5, <1>10
  <2>2. budget' = [budget EXCEPT !.faults = w]
    BY <1>5, <1>10, Zenon
  <2> HIDE DEF w
  <2>3. budget' = [b EXCEPT !.puts = x, !.calls = y, !.faults = w]
    BY <1>2, <1>3, <1>4, <2>1, <2>2, BudgetEdits
  <2> QED
    BY <1>5, <1>6, <2>1, <2>3, Zenon
<1> QED
  BY <1>5, <1>7, <1>8, <1>9, <1>10 DEF Pay

\* An update of a row leaves the others.
LEMMA RowSet ==
  ASSUME RowsTyped, NEW s \in Sessions, NEW r \in Row, SetRow(s, r)
  PROVE  RowsTyped' /\ row'[s] = r /\ \A t \in Sessions : t # s => row'[t] = row[t]
BY DEF RowsTyped, SetRow

\* The rows that claims, releases and the cleanup write
As(r, x, y) == [r EXCEPT !.st = x, !.tok = y]

LEMMA RowMoved ==
  ASSUME NEW r \in Row, NEW x \in Statuses, NEW y \in Tokens
  PROVE  LET c == As(r, x, y) IN
         c \in Row /\ c.st = x /\ c.tok = y /\ c.cc = r.cc /\ c.src = r.src /\ c.etag = r.etag
<1>1. [r EXCEPT !.st = x, !.tok = y] \in Row
  BY DEF Row
<1>2. LET c == [r EXCEPT !.st = x, !.tok = y] IN
      c.st = x /\ c.tok = y /\ c.cc = r.cc /\ c.src = r.src /\ c.etag = r.etag
  BY DEF Row
<1> QED
  BY <1>1, <1>2 DEF As

LEMMA RowClaimed ==
  ASSUME NEW r \in Row, NEW p \in Procs
  PROVE  LET c == Claimed(r, p)  d == [Claimed(r, p) EXCEPT !.cc = None] IN
         /\ c \in Row /\ c.st = "finalizing" /\ c.tok = p /\ c.cc = r.cc /\ c.src = r.src /\ c.etag = r.etag
         /\ d \in Row /\ d.st = "finalizing" /\ d.tok = p /\ d.cc = None /\ d.src = r.src /\ d.etag = r.etag
<1> DEFINE c == Claimed(r, p)
<1>1. "finalizing" \in Statuses /\ p \in Tokens /\ None \in Claimers
  BY DEF Statuses, Tokens, Claimers
<1>2. c \in Row /\ c.st = "finalizing" /\ c.tok = p /\ c.cc = r.cc /\ c.src = r.src /\ c.etag = r.etag
  <2>1. c = As(r, "finalizing", p)
    BY DEF Claimed, As
  <2> HIDE DEF c
  <2> QED
    BY <1>1, <2>1, RowMoved, Zenon
<1> HIDE DEF c
<1>3. LET d == [c EXCEPT !.cc = None] IN
      d \in Row /\ d.st = c.st /\ d.tok = c.tok /\ d.cc = None /\ d.src = c.src /\ d.etag = c.etag
  BY <1>1, <1>2 DEF Row
<1> QED
  BY <1>2, <1>3 DEF c

LEMMA RowFreed ==
  ASSUME NEW r \in Row, NEW x \in {"pending", "finalized"}
  PROVE  LET c == [r EXCEPT !.st = x, !.tok = None] IN
         c \in Row /\ c.st = x /\ c.tok = None /\ c.cc = r.cc /\ c.src = r.src /\ c.etag = r.etag
<1>1. x \in Statuses /\ None \in Tokens
  BY DEF Statuses, Tokens
<1>2. LET c == As(r, x, None) IN c \in Row /\ c.st = x /\ c.tok = None /\ c.cc = r.cc /\ c.src = r.src /\ c.etag = r.etag
  BY <1>1, RowMoved
<1> QED
  BY <1>2 DEF As

LEMMA RowTagged ==
  ASSUME NEW r \in Row, NEW x \in Seen
  PROVE  LET c == [r EXCEPT !.src = x]  d == [r EXCEPT !.etag = x] IN
         /\ c \in Row /\ c.st = r.st /\ c.tok = r.tok /\ c.cc = r.cc /\ c.src = x /\ c.etag = r.etag
         /\ d \in Row /\ d.st = r.st /\ d.tok = r.tok /\ d.cc = r.cc /\ d.src = r.src /\ d.etag = x
BY DEF Row

LEMMA RowExpiring ==
  ASSUME NEW r \in Row, NEW k \in Cleaners
  PROVE  LET c == [r EXCEPT !.st = "expiring", !.cc = k, !.tok = None] IN
         c \in Row /\ c.st = "expiring" /\ c.tok = None /\ c.src = r.src /\ c.etag = r.etag
<1>1. "expiring" \in Statuses /\ None \in Tokens /\ k \in Claimers
  BY DEF Statuses, Tokens, Claimers
<1>2. \A x \in Statuses, c \in Claimers, y \in Tokens : [r EXCEPT !.st = x, !.cc = c, !.tok = y] \in Row
  BY DEF Row
<1>3. [r EXCEPT !.st = "expiring", !.cc = k, !.tok = None] \in Row
  BY <1>1, <1>2, Zenon
<1>4. LET c == [r EXCEPT !.st = "expiring", !.cc = k, !.tok = None] IN
      c.st = "expiring" /\ c.tok = None /\ c.src = r.src /\ c.etag = r.etag
  BY DEF Row
<1> QED
  BY <1>3, <1>4

LEMMA RowUnclaimed ==
  ASSUME NEW r \in Row, NEW x \in {"pending", "expired"}, NEW n \in BOOLEAN
  PROVE  LET b == [r EXCEPT !.cc = None]
             a == [r EXCEPT !.st = "pending", !.cc = None]
             c == [b EXCEPT !.st = x, !.next = n]
         IN /\ a \in Row /\ a.st = "pending" /\ a.tok = r.tok /\ a.cc = None /\ a.src = r.src /\ a.etag = r.etag
            /\ c \in Row /\ c.st = x /\ c.tok = r.tok /\ c.cc = None /\ c.src = r.src /\ c.etag = r.etag
<1>1. x \in Statuses /\ "pending" \in Statuses /\ None \in Claimers
  BY DEF Statuses, Claimers
<1> QED
  BY <1>1 DEF Row

LEMMA RowTimed ==
  ASSUME NEW r \in Row
  PROVE  LET b == [r EXCEPT !.next = FALSE] IN
         b \in Row /\ b.st = r.st /\ b.tok = r.tok /\ b.cc = r.cc /\ b.src = r.src /\ b.etag = r.etag
BY DEF Row

\* A call or a pass that ended without giving its claim back leaves the claims of the others.
LEMMA Orphaned ==
  ASSUME RowsTyped, NEW p \in Procs, Orphan(p)
  PROVE  /\ RowsTyped'
         /\ \A s \in Sessions :
              /\ row'[s].st = row[s].st /\ row'[s].src = row[s].src /\ row'[s].etag = row[s].etag
              /\ row'[s].tok = IF row[s].tok = p THEN Gone ELSE row[s].tok
              /\ row'[s].cc = IF row[s].cc = p THEN Gone ELSE row[s].cc
<1>1. \A s \in Sessions : LET r == row[s]  c == [r EXCEPT !.tok = IF @ = p THEN Gone ELSE @, !.cc = IF @ = p THEN Gone ELSE @] IN
        /\ c \in Row /\ c.st = r.st /\ c.src = r.src /\ c.etag = r.etag
        /\ c.tok = (IF r.tok = p THEN Gone ELSE r.tok) /\ c.cc = (IF r.cc = p THEN Gone ELSE r.cc)
  BY DEF RowsTyped, Row, Tokens, Claimers
<1> QED
  BY <1>1 DEF RowsTyped, Orphan

\* A call has its session and what it has seen of it.
LEMMA CallNow ==
  ASSUME CallsTyped, NEW p \in Procs
  PROVE  /\ call[p].pc \in CallPcs \cup {"idle", "done", "failed"}
         /\ (call[p].pc \in CallPcs => call[p] \in Calling)
         /\ (call[p].pc \in CallPcs => call[p].s \in Sessions)
<1>1. call[p] \in Calling \/ call[p] \in Resting
  BY DEF CallsTyped
<1>2. CASE call[p] \in Calling
  BY <1>2 DEF Calling
<1>3. CASE call[p] \in Resting
  <2>1. call[p].pc \in {"idle", "done", "failed"}
    BY <1>3 DEF Resting, NoCall
  <2>2. call[p].pc \notin CallPcs
    BY <2>1 DEF CallPcs, MediaPcs, ArtifactPcs
  <2> QED
    BY <2>1, <2>2
<1> QED
  BY <1>1, <1>2, <1>3

\* The next step of a call
LEMMA CallGoes ==
  ASSUME CallsTyped, NEW p \in Procs, call[p].pc \in CallPcs, NEW x \in CallPcs, Goto(p, x)
  PROVE  /\ CallsTyped' /\ (\A q \in Procs : q # p => call'[q] = call[q])
         /\ LET k == call[p]  n == call'[p] IN
            /\ n.pc = x /\ n.s = k.s /\ n.st = k.st /\ n.src = k.src /\ n.etag = k.etag /\ n.exp = k.exp
            /\ n.fin = k.fin /\ n.v = k.v /\ n.ok = k.ok
<1> DEFINE n == [call[p] EXCEPT !.pc = x]
<1>1. call[p] \in Calling
  BY CallNow
<1>2. /\ n \in Calling
      /\ n.pc = x /\ n.s = call[p].s /\ n.st = call[p].st /\ n.src = call[p].src /\ n.etag = call[p].etag
      /\ n.exp = call[p].exp /\ n.fin = call[p].fin
      /\ n.v = call[p].v /\ n.ok = call[p].ok
  BY <1>1 DEF Calling
<1>3. call' = [call EXCEPT ![p] = n]
  BY DEF Goto
<1> HIDE DEF n
<1>4. CallsTyped' /\ call'[p] = n /\ \A q \in Procs : q # p => call'[q] = call[q]
  BY <1>2, <1>3 DEF CallsTyped
<1> QED
  BY <1>2, <1>4

\* The other calls go on as they were.
Others(p) == \A q \in Procs : q # p => call'[q] = call[q]

LEMMA CallSet ==
  ASSUME CallsTyped, NEW p \in Procs, NEW k \in Calling \cup Resting, call' = [call EXCEPT ![p] = k]
  PROVE  CallsTyped' /\ call'[p] = k /\ Others(p)
BY DEF CallsTyped, Others

LEMMA CallEnds ==
  ASSUME CallsTyped, NEW p \in Procs, NEW ok, End(p, ok)
  PROVE  CallsTyped' /\ call'[p].pc \notin CallPcs /\ Others(p)
<1>a. /\ [NoCall EXCEPT !.pc = "done"] = [pc |-> "done"] /\ [NoCall EXCEPT !.pc = "failed"] = [pc |-> "failed"]
  BY DEF NoCall
<1>b. [NoCall EXCEPT !.pc = IF ok THEN "done" ELSE "failed"] \in Resting /\ NoCall \in Resting
  <2>1. CASE ok
    BY <1>a, <2>1 DEF Resting
  <2>2. CASE ~ok
    BY <1>a, <2>2 DEF Resting
  <2> QED
    BY <2>1, <2>2
<1>1. PICK k \in Resting : call' = [call EXCEPT ![p] = k]
  <2>1. CASE p \in Users
    BY <1>b, <2>1 DEF End
  <2>2. CASE p \notin Users
    BY <1>b, <2>2 DEF End
  <2> QED
    BY <2>1, <2>2
<1>2. k.pc \notin CallPcs
  BY DEF Resting, NoCall, CallPcs, MediaPcs, ArtifactPcs
<1>3. CallsTyped' /\ call'[p] = k /\ Others(p)
  BY <1>1, CallSet
<1> QED
  BY <1>2, <1>3

LEMMA CallStops ==
  ASSUME CallsTyped, NEW p \in Procs, call' = [call EXCEPT ![p] = NoCall]
  PROVE  CallsTyped' /\ call'[p].pc \notin CallPcs /\ Others(p)
<1>1. NoCall \in Resting /\ NoCall.pc \notin CallPcs
  BY DEF Resting, NoCall, CallPcs, MediaPcs, ArtifactPcs
<1>2. CallsTyped' /\ call'[p] = NoCall /\ Others(p)
  BY <1>1, CallSet
<1> QED
  BY <1>1, <1>2

\* What a call knows of its session from its beginning on
SameView(p) ==
  LET k == call[p]  n == call'[p] IN
  n.s = k.s /\ n.st = k.st /\ n.src = k.src /\ n.etag = k.etag /\ n.exp = k.exp

\* A call that stats its final object
LEMMA CallStats ==
  ASSUME CallsTyped, NEW p \in Procs, call[p].pc \in CallPcs, NEW f \in Seen, NEW x \in CallPcs,
         call' = [call EXCEPT ![p].pc = x, ![p].fin = f, ![p].v = f]
  PROVE  /\ CallsTyped' /\ Others(p) /\ SameView(p)
         /\ call'[p].pc = x /\ call'[p].fin = f /\ call'[p].v = f /\ call'[p].ok = call[p].ok
<1> DEFINE n == [call[p] EXCEPT !.pc = x, !.fin = f, !.v = f]
<1>1. call[p] \in Calling
  BY CallNow
<1>2. n \in Calling
  BY <1>1 DEF Calling
<1>3. /\ n.pc = x /\ n.s = call[p].s /\ n.st = call[p].st /\ n.src = call[p].src /\ n.etag = call[p].etag
      /\ n.exp = call[p].exp /\ n.fin = f /\ n.v = f
      /\ n.ok = call[p].ok
  BY <1>1 DEF Calling
<1>4. call' = [call EXCEPT ![p] = n]
  BY <1>1 DEF CallsTyped
<1> HIDE DEF n
<1>5. CallsTyped' /\ call'[p] = n /\ Others(p)
  BY <1>2, <1>4, CallSet
<1> QED
  BY <1>3, <1>5 DEF SameView

\* A call that learns the content it works with
LEMMA CallLearns ==
  ASSUME CallsTyped, NEW p \in Procs, call[p].pc \in CallPcs, NEW f \in Seen, NEW x \in CallPcs,
         call' = [call EXCEPT ![p].v = f, ![p].pc = x]
  PROVE  /\ CallsTyped' /\ Others(p) /\ SameView(p)
         /\ call'[p].pc = x /\ call'[p].v = f /\ call'[p].ok = call[p].ok
<1> DEFINE n == [call[p] EXCEPT !.v = f, !.pc = x]
<1>1. call[p] \in Calling
  BY CallNow
<1>2. n \in Calling
  BY <1>1 DEF Calling
<1>3. /\ n.pc = x /\ n.s = call[p].s /\ n.st = call[p].st /\ n.src = call[p].src /\ n.etag = call[p].etag
      /\ n.exp = call[p].exp /\ n.v = f /\ n.ok = call[p].ok
  BY <1>1 DEF Calling
<1>4. call' = [call EXCEPT ![p] = n]
  BY <1>1 DEF CallsTyped
<1> HIDE DEF n
<1>5. CallsTyped' /\ call'[p] = n /\ Others(p)
  BY <1>2, <1>4, CallSet
<1> QED
  BY <1>3, <1>5 DEF SameView

\* A call whose copy has returned
LEMMA CallPromotes ==
  ASSUME CallsTyped, NEW p \in Procs, call[p].pc \in CallPcs, NEW x \in CallPcs,
         call' = [call EXCEPT ![p].pc = x, ![p].prom = TRUE]
  PROVE  CallsTyped' /\ Others(p) /\ SameView(p) /\ call'[p].pc = x /\ call'[p].v = call[p].v /\ call'[p].ok = call[p].ok
<1> DEFINE n == [call[p] EXCEPT !.pc = x, !.prom = TRUE]
<1>1. call[p] \in Calling
  BY CallNow
<1>2. n \in Calling
  BY <1>1 DEF Calling
<1>3. /\ n.pc = x /\ n.s = call[p].s /\ n.st = call[p].st /\ n.src = call[p].src /\ n.etag = call[p].etag
      /\ n.exp = call[p].exp /\ n.v = call[p].v /\ n.ok = call[p].ok
  BY <1>1 DEF Calling
<1>4. call' = [call EXCEPT ![p] = n]
  BY <1>1 DEF CallsTyped
<1> HIDE DEF n
<1>5. CallsTyped' /\ call'[p] = n /\ Others(p)
  BY <1>2, <1>4, CallSet
<1> QED
  BY <1>3, <1>5 DEF SameView

\* A call whose manifest is recorded
LEMMA CallRecords ==
  ASSUME CallsTyped, NEW p \in Procs, call[p].pc \in CallPcs, NEW x \in CallPcs,
         call' = [call EXCEPT ![p].pc = x, ![p].ok = TRUE]
  PROVE  CallsTyped' /\ Others(p) /\ SameView(p) /\ call'[p].pc = x
<1> DEFINE n == [call[p] EXCEPT !.pc = x, !.ok = TRUE]
<1>1. call[p] \in Calling
  BY CallNow
<1>2. n \in Calling
  BY <1>1 DEF Calling
<1>3. /\ n.pc = x /\ n.s = call[p].s /\ n.st = call[p].st /\ n.src = call[p].src /\ n.etag = call[p].etag
      /\ n.exp = call[p].exp
  BY <1>1 DEF Calling
<1>4. call' = [call EXCEPT ![p] = n]
  BY <1>1 DEF CallsTyped
<1> HIDE DEF n
<1>5. CallsTyped' /\ call'[p] = n /\ Others(p)
  BY <1>2, <1>4, CallSet
<1> QED
  BY <1>3, <1>5 DEF SameView

\* The passes of the cleaners: where one is, and what it listed
LEMMA PassNow ==
  ASSUME PassTyped, NEW k \in Cleaners, clean[k].pc # "idle"
  PROVE  /\ clean[k] \in Pass /\ clean[k].list \in Lists /\ clean[k].cur \in Sessions \cup {None}
         /\ DOMAIN clean[k].list \subseteq Sessions
         /\ \A s \in DOMAIN clean[k].list : clean[k].list[s] \in Listed
<1>1. clean[k] \in Pass
  BY DEF PassTyped, NoPass
<1>2. clean[k].list \in Lists /\ clean[k].cur \in Sessions \cup {None}
  BY <1>1 DEF Pass
<1>3. PICK S \in SUBSET Sessions : clean[k].list \in [S -> Listed]
  BY <1>2 DEF Lists
<1> QED
  BY <1>1, <1>2, <1>3

LEMMA InLists ==
  ASSUME NEW S \in SUBSET Sessions, NEW f \in [S -> Listed]
  PROVE  f \in Lists
BY DEF Lists

OtherPasses(k) == \A j \in Cleaners : j # k => clean'[j] = clean[j]

LEMMA PassSet ==
  ASSUME PassTyped, NEW k \in Cleaners, NEW c \in Pass \cup {NoPass}, clean' = [clean EXCEPT ![k] = c]
  PROVE  PassTyped' /\ clean'[k] = c /\ OtherPasses(k)
BY DEF PassTyped, OtherPasses

LEMMA PassGoes ==
  ASSUME PassTyped, NEW k \in Cleaners, clean[k].pc # "idle",
         NEW x \in {"next", "stat", "recover", "claim", "delete", "reopen", "finish"}, To(k, x)
  PROVE  /\ PassTyped' /\ OtherPasses(k)
         /\ clean'[k].pc = x /\ clean'[k].cur = clean[k].cur /\ clean'[k].list = clean[k].list
<1> DEFINE n == [clean[k] EXCEPT !.pc = x]
<1>1. clean[k] \in Pass
  BY PassNow
<1>2. n \in Pass /\ n.pc = x /\ n.cur = clean[k].cur /\ n.list = clean[k].list
  BY <1>1 DEF Pass
<1>3. clean' = [clean EXCEPT ![k] = n]
  BY DEF To
<1> HIDE DEF n
<1>4. PassTyped' /\ clean'[k] = n /\ OtherPasses(k)
  BY <1>2, <1>3, PassSet
<1> QED
  BY <1>2, <1>4

LEMMA PassEnds ==
  ASSUME PassTyped, NEW k \in Cleaners, Abort(k)
  PROVE  PassTyped' /\ clean'[k].pc = "idle" /\ OtherPasses(k)
<1>1. PassTyped' /\ clean'[k] = NoPass /\ OtherPasses(k)
  BY PassSet DEF Abort
<1> QED
  BY <1>1 DEF NoPass

\* The pass goes on with the rest of its list, or ends.
LEMMA PassProceeds ==
  ASSUME PassTyped, NEW k \in Cleaners, clean[k].pc # "idle", PassSees(k), Proceed(k)
  PROVE  /\ PassTyped' /\ OtherPasses(k)
         /\ clean'[k].pc # "idle" =>
              /\ clean'[k].pc = "next"
              /\ \A s \in DOMAIN clean'[k].list : s \in DOMAIN clean[k].list /\ clean'[k].list[s] = clean[k].list[s]
<1> DEFINE S    == DOMAIN clean[k].list \ {clean[k].cur}
           rest == [s \in S |-> clean[k].list[s]]
           n    == [pc |-> "next", list |-> rest, cur |-> None]
<1>1. S \in SUBSET Sessions /\ rest \in [S -> Listed]
  BY PassNow
<1>2. rest \in Lists
  BY <1>1, InLists
<1>3. \A s \in DOMAIN rest : s \in DOMAIN clean[k].list /\ rest[s] = clean[k].list[s]
  OBVIOUS
<1>4. clean' = [clean EXCEPT ![k] = NoPass] \/ clean' = [clean EXCEPT ![k] = n]
  BY DEF Proceed
<1> HIDE DEF rest
<1>5. n \in Pass /\ n.pc = "next" /\ n.list = rest
  BY <1>2 DEF Pass
<1> HIDE DEF n
<1>6. CASE clean' = [clean EXCEPT ![k] = NoPass]
  BY <1>6, PassEnds DEF Abort
<1>7. CASE clean' = [clean EXCEPT ![k] = n]
  <2>1. PassTyped' /\ clean'[k] = n /\ OtherPasses(k)
    BY <1>5, <1>7, PassSet
  <2> QED
    BY <1>3, <1>5, <2>1
<1> QED
  BY <1>4, <1>6, <1>7

-----------------------------------------------------------------------------
(* What a step keeps, and what is left to show of it                         *)

\* A recorded ETag, the fact of a source and a finalization stay.
RowKept(s) ==
  /\ (row[s].etag # None => row'[s].etag = row[s].etag)
  /\ (row[s].src # None => row'[s].src # None)
  /\ (row[s].st = "finalized" => row'[s].st = "finalized" /\ (s \in Media => asset'[s] = asset[s]))

\* A final object stays, time passes, and what is swept after the grace stays swept.
StoreKept(s) ==
  /\ (final[s] # None => final'[s] = final[s])
  /\ phase[s] <= phase'[s]
  /\ (phase[s] = 2 /\ staging[s] = None => staging'[s] = None)
  /\ (s \in filed => s \in filed')

\* A client's call that works on its source keeps its claim, and its age.
ClaimKept(s) ==
  \A u \in Users :
    call[u].s = s /\ OnSource(u) /\ call'[u] = call[u] /\ age'[u] = 0
    => age[u] = 0 /\ (Held(u, s) => Held(u, s)')

Kept == \A s \in Sessions : RowKept(s) /\ StoreKept(s) /\ ClaimKept(s)

LEMMA CallKeeps ==
  ASSUME CallsTyped, StoreTyped, StoreTyped', Kept, NEW q \in Procs, CallInv(q), call'[q] = call[q]
  PROVE  CallInv(q)'
<1> DEFINE s == call[q].s
<1> SUFFICES ASSUME call[q].pc \in CallPcs
             PROVE  CallSees(q)' /\ (q \in Users /\ OnSource(q) /\ age'[q] = 0 => Held(q, s)')
  BY DEF CallInv, OnSource
<1>1. s \in Sessions
  BY CallNow
<1>2. RowKept(s) /\ StoreKept(s) /\ ClaimKept(s)
  BY <1>1 DEF Kept
<1>3. CallSees(q) /\ (q \in Users /\ OnSource(q) /\ age[q] = 0 => Held(q, s))
  BY DEF CallInv
<1>4. None \notin Good
  BY Apart
<1>5. CallSees(q)'
  BY <1>2, <1>3, <1>4 DEF CallSees, RowKept, StoreKept
<1>6. ASSUME q \in Users, OnSource(q), age'[q] = 0
      PROVE  Held(q, s)'
  BY <1>2, <1>3, <1>6 DEF ClaimKept
<1> QED
  BY <1>5, <1>6

LEMMA PassKeeps ==
  ASSUME PassTyped, StoreTyped, StoreTyped', Kept, NEW k \in Cleaners, PassInv(k), clean'[k] = clean[k]
  PROVE  PassInv(k)'
<1> SUFFICES ASSUME clean[k].pc # "idle"
             PROVE  PassSees(k)'
  BY DEF PassInv
<1> DEFINE c == clean[k]
<1>1. PassSees(k)
  BY DEF PassInv
<1>2. \A s \in Sessions : phase[s] <= phase'[s] /\ phase[s] \in 0..2 /\ phase'[s] \in 0..2
  BY DEF Kept, StoreKept, StoreTyped
<1>3. \A s \in DOMAIN c.list : WasDue(s, c.list[s])'
  BY <1>1, <1>2, PassNow DEF PassSees, WasDue
<1>4. ASSUME c.pc = "finish", c.cur \in Artifacts, ~c.list[c.cur].grace
      PROVE  staging'[c.cur] = None
  <2>1. c.cur \in DOMAIN c.list /\ c.cur \in Sessions /\ staging[c.cur] = None /\ phase[c.cur] = 2
    BY <1>1, <1>4, PassNow DEF PassSees, WasDue
  <2> QED
    BY <2>1 DEF Kept, StoreKept
<1>5. (c.pc # "next" => c.cur \in DOMAIN c.list) /\ (c.pc \in {"stat", "recover"} => c.cur \in Media)
  BY <1>1 DEF PassSees
<1> QED
  BY <1>3, <1>4, <1>5 DEF PassSees

\* A step preserves the invariant if what it changed satisfies it and it keeps the rest.
LEMMA Together ==
  ASSUME IInv, ClockTyped', StoreTyped', RowsTyped', CallsTyped', PassTyped', Pay, Kept,
         \A s \in Sessions : RowInv(s)',
         \A q \in Procs : call'[q] = call[q] \/ CallInv(q)',
         \A k \in Cleaners : clean'[k] = clean[k] \/ PassInv(k)'
  PROVE  IInv'
<1>1. Types'
  BY Spent DEF IInv, Types
<1>2. \A q \in Procs : CallInv(q)'
  BY CallKeeps DEF IInv, Types
<1>3. \A k \in Cleaners : PassInv(k)'
  BY PassKeeps DEF IInv, Types
<1> QED
  BY <1>1, <1>2, <1>3 DEF IInv

\* A row and a store that did not change
LEMMA SameSession ==
  ASSUME StoreTyped, NEW s \in Sessions, row'[s] = row[s],
         UNCHANGED <<phase, staging, final, copying, asset, filed>>
  PROVE  RowKept(s) /\ StoreKept(s) /\ (RowInv(s) => RowInv(s)')
<1>1. phase[s] <= phase'[s]
  BY DEF StoreTyped
<1>2. RowKept(s) /\ StoreKept(s)
  BY <1>1 DEF RowKept, StoreKept
<1>3. RowInv(s) => RowInv(s)'
  BY DEF RowInv
<1> QED
  BY <1>2, <1>3

\* Nor the clocks
LEMMA SameClock ==
  ASSUME IInv, UNCHANGED <<age, gap>>
  PROVE  ClockTyped' /\ \A s \in Sessions : row'[s] = row[s] => ClaimKept(s)
BY DEF IInv, Types, ClockTyped, ClaimKept, Held

\* A step of one call
LEMMA OnlyCall ==
  ASSUME IInv, NEW p \in Procs, CallsTyped', Others(p), CallInv(p)', Pay,
         UNCHANGED <<row, phase, age, gap, staging, final, copying, asset, filed, clean>>
  PROVE  IInv' /\ Kept
<1>1. StoreTyped' /\ RowsTyped' /\ PassTyped'
  BY DEF IInv, Types, StoreTyped, RowsTyped, PassTyped
<1>c. ClockTyped' /\ \A t \in Sessions : ClaimKept(t)
  BY SameClock
<1>2. \A t \in Sessions : RowKept(t) /\ StoreKept(t) /\ RowInv(t)'
  BY SameSession DEF IInv, Types
<1>4. Kept /\ \A t \in Sessions : RowInv(t)'
  BY <1>c, <1>2 DEF Kept
<1>5. \A q \in Procs : call'[q] = call[q] \/ CallInv(q)'
  BY DEF Others
<1>6. \A k \in Cleaners : clean'[k] = clean[k] \/ PassInv(k)'
  OBVIOUS
<1> QED
  BY <1>1, <1>c, <1>4, <1>5, <1>6, Together

\* A step of one call that begins, with a new Now
LEMMA CallBegins ==
  ASSUME IInv, NEW p \in Procs, CallsTyped', Others(p), CallInv(p)', Pay,
         UNCHANGED <<row, phase, staging, final, copying, asset, filed, clean>>,
         ClockTyped', \A t \in Sessions : ClaimKept(t)
  PROVE  IInv' /\ Kept
<1>1. StoreTyped' /\ RowsTyped' /\ PassTyped'
  BY DEF IInv, Types, StoreTyped, RowsTyped, PassTyped
<1>c. ClockTyped' /\ \A t \in Sessions : ClaimKept(t)
  OBVIOUS
<1>2. \A t \in Sessions : RowKept(t) /\ StoreKept(t) /\ RowInv(t)'
  BY SameSession DEF IInv, Types
<1>4. Kept /\ \A t \in Sessions : RowInv(t)'
  BY <1>c, <1>2 DEF Kept
<1>5. \A q \in Procs : call'[q] = call[q] \/ CallInv(q)'
  BY DEF Others
<1>6. \A k \in Cleaners : clean'[k] = clean[k] \/ PassInv(k)'
  OBVIOUS
<1> QED
  BY <1>1, <1>c, <1>4, <1>5, <1>6, Together

\* A step of one call that changes one row
LEMMA CallAndRow ==
  ASSUME IInv, NEW p \in Procs, CallsTyped', Others(p), CallInv(p)', Pay,
         UNCHANGED <<phase, age, gap, staging, final, copying, asset, filed, clean>>,
         RowsTyped', NEW s \in Sessions, \A t \in Sessions : t # s => row'[t] = row[t],
         RowKept(s), ClaimKept(s), RowInv(s)'
  PROVE  IInv' /\ Kept
<1>1. StoreTyped' /\ PassTyped'
  BY DEF IInv, Types, StoreTyped, PassTyped
<1>c. ClockTyped' /\ \A t \in Sessions : t # s => ClaimKept(t)
  BY SameClock
<1>2. \A t \in Sessions : t # s => RowKept(t) /\ StoreKept(t) /\ RowInv(t)'
  BY SameSession DEF IInv, Types
<1>3. StoreKept(s)
  BY DEF StoreKept, StoreTyped, IInv, Types
<1>4. Kept /\ \A t \in Sessions : RowInv(t)'
  BY <1>c, <1>2, <1>3 DEF Kept
<1>5. \A q \in Procs : call'[q] = call[q] \/ CallInv(q)'
  BY DEF Others
<1>6. \A k \in Cleaners : clean'[k] = clean[k] \/ PassInv(k)'
  OBVIOUS
<1> QED
  BY <1>1, <1>c, <1>4, <1>5, <1>6, Together

\* A step of one call that takes a claim on one row
LEMMA CallClaims ==
  ASSUME IInv, NEW p \in Procs, CallsTyped', Others(p), CallInv(p)', Pay,
         UNCHANGED <<phase, staging, final, copying, asset, filed, clean>>,
         ClockTyped', \A t \in Sessions : ClaimKept(t),
         RowsTyped', NEW s \in Sessions, \A t \in Sessions : t # s => row'[t] = row[t],
         RowKept(s), RowInv(s)'
  PROVE  IInv' /\ Kept
<1>1. StoreTyped' /\ PassTyped'
  BY DEF IInv, Types, StoreTyped, PassTyped
<1>c. ClockTyped' /\ \A t \in Sessions : t # s => ClaimKept(t)
  OBVIOUS
<1>2. \A t \in Sessions : t # s => RowKept(t) /\ StoreKept(t) /\ RowInv(t)'
  BY SameSession DEF IInv, Types
<1>3. StoreKept(s)
  BY DEF StoreKept, StoreTyped, IInv, Types
<1>4. Kept /\ \A t \in Sessions : RowInv(t)'
  BY <1>c, <1>2, <1>3 DEF Kept
<1>5. \A q \in Procs : call'[q] = call[q] \/ CallInv(q)'
  BY DEF Others
<1>6. \A k \in Cleaners : clean'[k] = clean[k] \/ PassInv(k)'
  OBVIOUS
<1> QED
  BY <1>1, <1>c, <1>4, <1>5, <1>6, Together

\* A step of one pass
LEMMA OnlyPass ==
  ASSUME IInv, NEW k \in Cleaners, PassTyped', OtherPasses(k), PassInv(k)', Pay,
         UNCHANGED <<row, phase, age, gap, staging, final, copying, asset, filed, call>>
  PROVE  IInv' /\ Kept
<1>1. StoreTyped' /\ RowsTyped' /\ CallsTyped'
  BY DEF IInv, Types, StoreTyped, RowsTyped, CallsTyped
<1>c. ClockTyped' /\ \A t \in Sessions : ClaimKept(t)
  BY SameClock
<1>2. \A t \in Sessions : RowKept(t) /\ StoreKept(t) /\ RowInv(t)'
  BY SameSession DEF IInv, Types
<1>4. Kept /\ \A t \in Sessions : RowInv(t)'
  BY <1>c, <1>2 DEF Kept
<1>5. \A q \in Procs : call'[q] = call[q] \/ CallInv(q)'
  OBVIOUS
<1>6. \A j \in Cleaners : clean'[j] = clean[j] \/ PassInv(j)'
  BY DEF OtherPasses
<1> QED
  BY <1>1, <1>c, <1>4, <1>5, <1>6, Together

\* A step of one pass that begins, with a new Now
LEMMA PassBegins ==
  ASSUME IInv, NEW k \in Cleaners, PassTyped', OtherPasses(k), PassInv(k)', Pay,
         UNCHANGED <<row, phase, staging, final, copying, asset, filed, call>>,
         ClockTyped', \A t \in Sessions : ClaimKept(t)
  PROVE  IInv' /\ Kept
<1>1. StoreTyped' /\ RowsTyped' /\ CallsTyped'
  BY DEF IInv, Types, StoreTyped, RowsTyped, CallsTyped
<1>c. ClockTyped' /\ \A t \in Sessions : ClaimKept(t)
  OBVIOUS
<1>2. \A t \in Sessions : RowKept(t) /\ StoreKept(t) /\ RowInv(t)'
  BY SameSession DEF IInv, Types
<1>4. Kept /\ \A t \in Sessions : RowInv(t)'
  BY <1>c, <1>2 DEF Kept
<1>5. \A q \in Procs : call'[q] = call[q] \/ CallInv(q)'
  OBVIOUS
<1>6. \A j \in Cleaners : clean'[j] = clean[j] \/ PassInv(j)'
  BY DEF OtherPasses
<1> QED
  BY <1>1, <1>c, <1>4, <1>5, <1>6, Together

\* A step of one pass that changes one row
LEMMA PassAndRow ==
  ASSUME IInv, NEW k \in Cleaners, PassTyped', OtherPasses(k), PassInv(k)', Pay,
         UNCHANGED <<phase, age, gap, staging, final, copying, asset, filed, call>>,
         RowsTyped', NEW s \in Sessions, \A t \in Sessions : t # s => row'[t] = row[t],
         RowKept(s), ClaimKept(s), RowInv(s)'
  PROVE  IInv' /\ Kept
<1>1. StoreTyped' /\ CallsTyped'
  BY DEF IInv, Types, StoreTyped, CallsTyped
<1>c. ClockTyped' /\ \A t \in Sessions : t # s => ClaimKept(t)
  BY SameClock
<1>2. \A t \in Sessions : t # s => RowKept(t) /\ StoreKept(t) /\ RowInv(t)'
  BY SameSession DEF IInv, Types
<1>3. StoreKept(s)
  BY DEF StoreKept, StoreTyped, IInv, Types
<1>4. Kept /\ \A t \in Sessions : RowInv(t)'
  BY <1>c, <1>2, <1>3 DEF Kept
<1>5. \A q \in Procs : call'[q] = call[q] \/ CallInv(q)'
  OBVIOUS
<1>6. \A j \in Cleaners : clean'[j] = clean[j] \/ PassInv(j)'
  BY DEF OtherPasses
<1> QED
  BY <1>1, <1>c, <1>4, <1>5, <1>6, Together

\* A step of one pass that takes a claim on one row
LEMMA PassClaims ==
  ASSUME IInv, NEW k \in Cleaners, PassTyped', OtherPasses(k), PassInv(k)', Pay,
         UNCHANGED <<phase, staging, final, copying, asset, filed, call>>,
         ClockTyped', \A t \in Sessions : ClaimKept(t),
         RowsTyped', NEW s \in Sessions, \A t \in Sessions : t # s => row'[t] = row[t],
         RowKept(s), RowInv(s)'
  PROVE  IInv' /\ Kept
<1>1. StoreTyped' /\ CallsTyped'
  BY DEF IInv, Types, StoreTyped, CallsTyped
<1>c. ClockTyped' /\ \A t \in Sessions : t # s => ClaimKept(t)
  OBVIOUS
<1>2. \A t \in Sessions : t # s => RowKept(t) /\ StoreKept(t) /\ RowInv(t)'
  BY SameSession DEF IInv, Types
<1>3. StoreKept(s)
  BY DEF StoreKept, StoreTyped, IInv, Types
<1>4. Kept /\ \A t \in Sessions : RowInv(t)'
  BY <1>c, <1>2, <1>3 DEF Kept
<1>5. \A q \in Procs : call'[q] = call[q] \/ CallInv(q)'
  OBVIOUS
<1>6. \A j \in Cleaners : clean'[j] = clean[j] \/ PassInv(j)'
  BY DEF OtherPasses
<1> QED
  BY <1>1, <1>c, <1>4, <1>5, <1>6, Together

\* A step that neither a call nor a pass takes
LEMMA NoCallNoPass ==
  ASSUME IInv, Pay, UNCHANGED <<call, clean>>, ClockTyped', StoreTyped', RowsTyped',
         \A s \in Sessions : RowKept(s) /\ StoreKept(s) /\ ClaimKept(s) /\ RowInv(s)'
  PROVE  IInv' /\ Kept
<1>1. CallsTyped' /\ PassTyped' /\ Kept
  BY DEF IInv, Types, CallsTyped, PassTyped, Kept
<1>2. \A q \in Procs : call'[q] = call[q] \/ CallInv(q)'
  OBVIOUS
<1>3. \A k \in Cleaners : clean'[k] = clean[k] \/ PassInv(k)'
  OBVIOUS
<1> QED
  BY <1>1, <1>2, <1>3, Together

-----------------------------------------------------------------------------
(* The clocks                                                                *)

\* The Now of a process that begins is a new one; no other is nearer to it than it was.
LEMMA ReadsNow ==
  ASSUME IInv, NEW p \in Procs, ReadsClock(p), UNCHANGED row, p \in Users => call'[p] # call[p]
  PROVE  ClockTyped' /\ \A s \in Sessions : ClaimKept(s)
<1>1. age \in [Timed -> 0..2] /\ gap \in [Procs -> [Timed -> 0..2]] /\ \A q \in Procs, x \in Timed : gap[q][x] <= age[x]
  BY DEF IInv, Types, ClockTyped
<1>2. p \in Timed /\ \A s \in Sessions : s \in Timed /\ s # p
  BY Apart DEF Timed
<1>3. age' \in [Timed -> 0..2] /\ age'[p] = 0 /\ \A x \in Timed : x # p => age'[x] = age[x]
  BY <1>1, <1>2 DEF ReadsClock
<1>4. \A q \in Procs : gap'[q] = IF q = p THEN age' ELSE [gap[q] EXCEPT ![p] = 0]
  BY DEF ReadsClock
<1>5. ASSUME NEW q \in Procs
      PROVE  /\ gap'[q] \in [Timed -> 0..2]
             /\ (q = p => \A x \in Timed : gap'[q][x] = age'[x])
             /\ (q # p => gap'[q][p] = 0 /\ \A x \in Timed : x # p => gap'[q][x] = gap[q][x])
  <2>1. gap[q] \in [Timed -> 0..2] /\ 0 \in 0..2
    BY <1>1
  <2>2. CASE q = p
    BY <1>3, <1>4, <2>2
  <2>3. CASE q # p
    <3>1. gap'[q] = [gap[q] EXCEPT ![p] = 0]
      BY <1>4, <2>3
    <3> QED
      BY <1>2, <2>1, <2>3, <3>1
  <2> QED
    BY <2>2, <2>3
<1>6. gap' \in [Procs -> [Timed -> 0..2]]
  BY <1>5 DEF ReadsClock
<1>7. \A q \in Procs, x \in Timed : gap'[q][x] <= age'[x]
  <2> SUFFICES ASSUME NEW q \in Procs, NEW x \in Timed
               PROVE  gap'[q][x] <= age'[x]
    OBVIOUS
  <2>1. age'[x] \in 0..2 /\ age[x] \in 0..2 /\ gap[q] \in [Timed -> 0..2] /\ gap[q][x] \in 0..2
    BY <1>1, <1>3
  <2>2. CASE q = p
    BY <1>5, <2>1, <2>2
  <2>3. CASE q # p /\ x = p
    BY <1>3, <1>5, <2>1, <2>3
  <2>4. CASE q # p /\ x # p
    BY <1>1, <1>3, <1>5, <2>1, <2>4
  <2> QED
    BY <2>2, <2>3, <2>4
<1>8. ASSUME NEW s \in Sessions
      PROVE  ClaimKept(s)
  <2> SUFFICES ASSUME NEW u \in Users, call'[u] = call[u], age'[u] = 0
               PROVE  age[u] = 0 /\ (Held(u, s) => Held(u, s)')
    BY DEF ClaimKept
  <2>1. u # p /\ u \in Timed
    BY DEF Timed, Procs
  <2>2. age[u] = 0
    BY <1>3, <2>1
  <2>3. ASSUME Held(u, s), NEW q \in Procs
        PROVE  gap'[q][s] = 0
    <3>1. s \in Timed /\ s # p /\ gap[q][s] = 0 /\ age'[s] = 0
      BY <1>1, <1>2, <1>3, <2>3 DEF Held
    <3> QED
      BY <1>5, <3>1
  <2>4. ASSUME Held(u, s)
        PROVE  Held(u, s)'
    <3>1. age'[s] = 0
      BY <1>2, <1>3, <2>4 DEF Held
    <3> QED
      BY <2>3, <2>4, <3>1 DEF Held
  <2> QED
    BY <2>2, <2>4
<1> QED
  BY <1>3, <1>6, <1>7, <1>8 DEF ClockTyped

\* A claim is as old as the Now of who took it; it is taken where nobody holds one.
LEMMA ClaimTaken ==
  ASSUME IInv, NEW p \in Procs, NEW s \in Sessions, TakesClaim(p, s),
         \A t \in Sessions : t # s => row'[t] = row[t],
         \A u \in Users : ~Held(u, s)
  PROVE  /\ ClockTyped' /\ \A t \in Sessions : ClaimKept(t)
         /\ age'[p] = age[p] /\ (age[p] = 0 => age'[s] = 0 /\ \A q \in Procs : gap'[q][s] = 0)
<1>1. age \in [Timed -> 0..2] /\ gap \in [Procs -> [Timed -> 0..2]] /\ \A q \in Procs, x \in Timed : gap[q][x] <= age[x]
  BY DEF IInv, Types, ClockTyped
<1>2. p \in Timed /\ p # s /\ s \in Timed /\ (\A u \in Users : u \in Timed /\ u # s)
  BY Apart DEF Timed, Procs
<1>3. age' \in [Timed -> 0..2] /\ age'[s] = age[p] /\ \A x \in Timed : x # s => age'[x] = age[x]
  BY <1>1, <1>2 DEF TakesClaim
<1>4. \A q \in Procs : gap'[q] = [gap[q] EXCEPT ![s] = gap[q][p]] /\ gap[q] \in [Timed -> 0..2]
  BY <1>1 DEF TakesClaim
<1>5. ASSUME NEW q \in Procs
      PROVE  /\ gap'[q] \in [Timed -> 0..2] /\ gap'[q][s] = gap[q][p]
             /\ \A x \in Timed : x # s => gap'[q][x] = gap[q][x]
  <2>1. gap'[q] = [gap[q] EXCEPT ![s] = gap[q][p]] /\ gap[q] \in [Timed -> 0..2] /\ gap[q][p] \in 0..2
    BY <1>2, <1>4
  <2> QED
    BY <1>2, <2>1
<1>6. gap' \in [Procs -> [Timed -> 0..2]]
  BY <1>5 DEF TakesClaim
<1>7. \A q \in Procs, x \in Timed : gap'[q][x] <= age'[x]
  BY <1>1, <1>2, <1>3, <1>5
<1>8. ASSUME NEW t \in Sessions, t # s
      PROVE  ClaimKept(t)
  <2>1. t \in Timed /\ row'[t] = row[t] /\ age'[t] = age[t] /\ \A q \in Procs : gap'[q][t] = gap[q][t]
    BY <1>3, <1>5, <1>8 DEF Timed
  <2>2. \A u \in Users : age'[u] = age[u]
    BY <1>2, <1>3
  <2> QED
    BY <2>1, <2>2 DEF ClaimKept, Held
<1>9. ClaimKept(s)
  BY <1>2, <1>3 DEF ClaimKept
<1>10. age[p] = 0 => \A q \in Procs : gap'[q][s] = 0
  <2> SUFFICES ASSUME age[p] = 0, NEW q \in Procs
               PROVE  gap'[q][s] = 0
    OBVIOUS
  <2>1. gap[q][p] <= age[p] /\ gap[q][p] \in 0..2
    BY <1>1, <1>2
  <2> QED
    BY <1>5, <2>1
<1> QED
  BY <1>2, <1>3, <1>6, <1>7, <1>8, <1>9, <1>10 DEF ClockTyped

-----------------------------------------------------------------------------
(* Steps of a call that only reads                                           *)

\* What holds of a call wherever it is
BaseSees(p) ==
  LET k == call[p] IN
  /\ (k.etag # None => row[k.s].etag = k.etag)
  /\ (k.ok => k.s \in filed)

LEMMA BaseKeeps ==
  ASSUME NEW p \in Procs, call[p].pc \in CallPcs, CallInv(p), SameView(p), call'[p].ok = call[p].ok,
         RowKept(call[p].s), StoreKept(call[p].s)
  PROVE  BaseSees(p)'
BY DEF CallInv, CallSees, SameView, RowKept, StoreKept, BaseSees

\* Steps at which nothing more is known
LEMMA Rests ==
  ASSUME NEW p \in Procs, BaseSees(p)', call'[p].pc \in {"release", "statF"}
  PROVE  CallInv(p)'
BY DEF BaseSees, CallInv, CallSees, OnSource, Working, MediaPcs, ArtifactPcs

LEMMA EndsWell ==
  ASSUME NEW p \in Procs, call'[p].pc \notin CallPcs
  PROVE  CallInv(p)'
BY DEF CallInv

LEMMA Goes ==
  ASSUME CallsTyped, NEW p \in Procs, call[p].pc \in CallPcs, NEW x \in CallPcs, Goto(p, x)
  PROVE  /\ CallsTyped' /\ Others(p) /\ SameView(p)
         /\ call'[p].pc = x /\ call'[p].fin = call[p].fin /\ call'[p].v = call[p].v /\ call'[p].ok = call[p].ok
BY CallGoes DEF Others, SameView

\* What a process is, and its call
LEMMA Now ==
  ASSUME IInv, NEW p \in Procs, call[p].pc \in CallPcs
  PROVE  /\ CallsTyped /\ RowsTyped /\ StoreTyped /\ PassTyped /\ call[p].s \in Sessions /\ call[p] \in Calling
         /\ row[call[p].s] \in Row /\ RowInv(call[p].s) /\ CallInv(p) /\ CallSees(p)
         /\ (p \in Users /\ OnSource(p) /\ age[p] = 0 => Held(p, call[p].s))
<1>1. CallsTyped /\ RowsTyped /\ StoreTyped /\ PassTyped /\ call[p].s \in Sessions /\ call[p] \in Calling
  BY CallNow DEF IInv, Types
<1>2. row[call[p].s] \in Row /\ RowInv(call[p].s) /\ CallInv(p)
  BY <1>1 DEF IInv, RowsTyped
<1> QED
  BY <1>1, <1>2 DEF CallInv

\* A step that changes nothing but its call keeps what the call knew.
LEMMA StillSees ==
  ASSUME IInv, NEW p \in Procs, call[p].pc \in CallPcs, SameView(p), call'[p].ok = call[p].ok,
         UNCHANGED <<row, phase, age, gap, staging, final, copying, asset, filed, clean>>
  PROVE  BaseSees(p)'
<1>1. call[p].s \in Sessions /\ CallInv(p) /\ StoreTyped
  BY Now
<1>2. RowKept(call[p].s) /\ StoreKept(call[p].s)
  BY <1>1, SameSession
<1> QED
  BY <1>1, <1>2, BaseKeeps

\* A call that ends, or goes to a step at which nothing more is known
LEMMA CallRests ==
  ASSUME IInv, NEW p \in Procs, call[p].pc \in CallPcs, Pay,
         (\E ok \in BOOLEAN : End(p, ok)) \/ Goto(p, "release"),
         UNCHANGED <<row, phase, age, gap, staging, final, copying, asset, filed, clean>>
  PROVE  IInv' /\ Kept
<1>1. CallsTyped
  BY Now
<1>2. CASE \E ok \in BOOLEAN : End(p, ok)
  <2>1. CallsTyped' /\ call'[p].pc \notin CallPcs /\ Others(p)
    BY <1>1, <1>2, CallEnds
  <2>2. CallInv(p)'
    BY <2>1, EndsWell
  <2> QED
    BY <2>1, <2>2, OnlyCall
<1>3. CASE Goto(p, "release")
  <2>1. "release" \in CallPcs
    BY DEF CallPcs
  <2>2. CallsTyped' /\ Others(p) /\ SameView(p) /\ call'[p].pc = "release" /\ call'[p].ok = call[p].ok
    BY <1>1, <1>3, <2>1, Goes
  <2>3. BaseSees(p)'
    BY <2>2, StillSees
  <2>4. CallInv(p)'
    BY <2>2, <2>3, Rests
  <2> QED
    BY <2>2, <2>4, OnlyCall
<1> QED
  BY <1>2, <1>3

\* The beginning of a call
LEMMA Begins ==
  ASSUME CallsTyped, NEW p \in Procs, NEW x \in {"find", "mstat"}, NEW s \in Sessions, NEW exp \in BOOLEAN,
         x = "find" => s \in Media, x = "mstat" => s \in Artifacts, call' = [call EXCEPT ![p] = Call(x, s, exp)]
  PROVE  CallsTyped' /\ Others(p) /\ CallInv(p)' /\ call'[p].pc = x
<1> DEFINE n == Call(x, s, exp)
<1>1. x \in CallPcs /\ None \in Seen /\ FALSE \in BOOLEAN /\ "" \in Statuses \cup {""}
  BY DEF CallPcs, MediaPcs, ArtifactPcs, Seen
<1>2. n \in Calling /\ n.pc = x /\ n.s = s /\ n.etag = None /\ n.ok = FALSE
  BY <1>1 DEF Calling, Call
<1> HIDE DEF n
<1>3. CallsTyped' /\ call'[p] = n /\ Others(p)
  BY <1>2, CallSet DEF n
<1>4. CallInv(p)'
  BY <1>2, <1>3 DEF CallInv, CallSees, OnSource, Working, MediaPcs, ArtifactPcs
<1> QED
  BY <1>2, <1>3, <1>4

LEMMA StepUserCall ==
  ASSUME IInv, NEW u \in Users, NEW s \in Sessions, UserCall(u, s)
  PROVE  IInv' /\ Kept
<1>1. /\ u \in Procs /\ Pay /\ UNCHANGED <<row, phase, staging, final, copying, asset, filed, clean>>
      /\ CallsTyped /\ call[u].pc = "idle" /\ ReadsClock(u)
  BY DEF UserCall, Procs, Pay, store, IInv, Types
<1>2. PICK x \in {"find", "mstat"} : /\ call' = [call EXCEPT ![u] = Call(x, s, phase[s] > 0)]
                                     /\ (x = "find" => s \in Media) /\ (x = "mstat" => s \in Artifacts)
  BY DEF UserCall, Sessions
<1>3. (phase[s] > 0) \in BOOLEAN
  OBVIOUS
<1>4. CallsTyped' /\ Others(u) /\ CallInv(u)' /\ call'[u].pc = x
  BY <1>1, <1>2, <1>3, Begins
<1>5. ClockTyped' /\ \A t \in Sessions : ClaimKept(t)
  BY <1>1, <1>4, ReadsNow
<1> QED
  BY <1>1, <1>4, <1>5, CallBegins

LEMMA StepFind ==
  ASSUME IInv, NEW p \in Procs, Find(p)
  PROVE  IInv' /\ Kept
<1> DEFINE s == call[p].s  r == row[s]
<1>1. /\ call[p].pc = "find" /\ call[p].pc \in CallPcs /\ Pay
      /\ UNCHANGED <<row, phase, age, gap, staging, final, copying, asset, filed, clean>>
  BY DEF Find, Pay, NoFault, time, store, CallPcs, MediaPcs
<1>2. CallsTyped /\ r \in Row /\ CallSees(p) /\ call[p] \in Calling
  BY <1>1, Now
<1>3. CASE r.st = "finalized"
  <2>1. End(p, TRUE)
    BY <1>3 DEF Find
  <2> QED
    BY <1>1, <2>1, CallRests
<1>4. CASE r.st # "finalized"
  <2> DEFINE n == [call[p] EXCEPT !.pc = "stat", !.st = r.st, !.src = r.src, !.etag = r.etag]
  <2>1. call' = [call EXCEPT ![p] = n]
    BY <1>4, Zenon DEF Find
  <2>2. r.st \in Statuses \cup {""} /\ r.src \in Seen /\ r.etag \in Seen /\ "stat" \in CallPcs
    BY <1>2 DEF Row, CallPcs, MediaPcs
  <2>3. n \in Calling /\ n.pc = "stat" /\ n.s = s /\ n.etag = r.etag /\ n.ok = call[p].ok
    BY <1>2, <2>2 DEF Calling
  <2> HIDE DEF n
  <2>4. CallsTyped' /\ call'[p] = n /\ Others(p)
    BY <1>2, <2>1, <2>3, CallSet
  <2>5. s \in Media /\ (call[p].ok => s \in filed)
    BY <1>1, <1>2 DEF CallSees, MediaPcs
  <2>6. CallInv(p)'
    BY <1>1, <2>3, <2>4, <2>5 DEF CallInv, CallSees, OnSource, Working, MediaPcs, ArtifactPcs
  <2> QED
    BY <1>1, <2>4, <2>6, OnlyCall
<1> QED
  BY <1>3, <1>4

LEMMA StepStatFinal ==
  ASSUME IInv, NEW p \in Procs, StatFinal(p)
  PROVE  IInv' /\ Kept
<1> DEFINE s == call[p].s  f == final[s]
<1>1. /\ call[p].pc = "stat" /\ call[p].pc \in CallPcs /\ Pay
      /\ UNCHANGED <<row, phase, age, gap, staging, final, copying, asset, filed, clean>>
  BY DEF StatFinal, Pay, NoFault, time, store, CallPcs, MediaPcs
<1>2. CallsTyped /\ StoreTyped /\ s \in Sessions /\ CallSees(p)
  BY <1>1, Now
<1>3. CASE f = None \/ FinalAcceptable(p, f)
  <2>1. call' = [call EXCEPT ![p].pc = "claim", ![p].fin = f, ![p].v = f]
    BY <1>3 DEF StatFinal
  <2>2. f \in Seen /\ "claim" \in CallPcs
    BY <1>2, Apart DEF StoreTyped, Objects, Seen, CallPcs, MediaPcs
  <2> HIDE DEF f
  <2>3. /\ CallsTyped' /\ Others(p) /\ SameView(p)
        /\ call'[p].pc = "claim" /\ call'[p].fin = f /\ call'[p].v = f /\ call'[p].ok = call[p].ok
    BY <1>1, <1>2, <2>1, <2>2, CallStats
  <2>4. BaseSees(p)'
    BY <1>1, <2>3, StillSees
  <2>5. f # None => final[s] = f /\ (call[p].etag # None => call[p].etag = f)
    BY <1>3 DEF FinalAcceptable, f
  <2>6. s \in Media
    BY <1>1, <1>2 DEF CallSees, MediaPcs
  <2>7. CallInv(p)'
    BY <1>1, <2>3, <2>4, <2>5, <2>6 DEF CallInv, CallSees, BaseSees, SameView, OnSource, Working,
       ArtifactPcs
  <2> QED
    BY <1>1, <2>3, <2>7, OnlyCall
<1>4. CASE ~(f = None \/ FinalAcceptable(p, f))
  <2>1. End(p, FALSE)
    BY <1>4 DEF StatFinal
  <2> QED
    BY <1>1, <2>1, CallRests
<1> QED
  BY <1>3, <1>4

LEMMA StepRecover ==
  ASSUME IInv, NEW p \in Procs, Recover(p)
  PROVE  IInv' /\ Kept
<1> DEFINE s == call[p].s
<1>1. /\ call[p].pc = "recover" /\ call[p].pc \in CallPcs /\ Pay
      /\ UNCHANGED <<row, phase, age, gap, staging, final, copying, asset, filed, clean>>
  BY DEF Recover, Pay, NoFault, time, store, CallPcs, MediaPcs
<1>2. CallsTyped /\ CallSees(p)
  BY <1>1, Now
<1>3. CASE Goto(p, "recordE")
  <2>1. "recordE" \in CallPcs
    BY DEF CallPcs, MediaPcs
  <2>2. /\ CallsTyped' /\ Others(p) /\ SameView(p)
        /\ call'[p].pc = "recordE" /\ call'[p].v = call[p].v /\ call'[p].ok = call[p].ok
    BY <1>1, <1>2, <1>3, <2>1, Goes
  <2>3. BaseSees(p)'
    BY <1>1, <2>2, StillSees
  <2>4. s \in Media /\ call[p].v \in Good /\ final[s] = call[p].v
    BY <1>1, <1>2 DEF CallSees, MediaPcs
  <2>5. CallInv(p)'
    BY <1>1, <2>2, <2>3, <2>4 DEF CallInv, CallSees, BaseSees, SameView, OnSource, Working,
       ArtifactPcs
  <2> QED
    BY <1>1, <2>2, <2>5, OnlyCall
<1>4. CASE Goto(p, "release")
  BY <1>1, <1>4, CallRests
<1> QED
  BY <1>3, <1>4 DEF Recover

LEMMA StepStatStaging ==
  ASSUME IInv, NEW p \in Procs, StatStaging(p)
  PROVE  IInv' /\ Kept
<1> DEFINE s == call[p].s  x == staging[s]
<1>1. /\ call[p].pc = "staging" /\ call[p].pc \in CallPcs /\ Pay
      /\ UNCHANGED <<row, phase, age, gap, staging, final, copying, asset, filed, clean>>
  BY DEF StatStaging, Pay, NoFault, time, store, CallPcs
<1>2. CallsTyped /\ StoreTyped /\ s \in Sessions /\ CallSees(p) /\ (p \in Users /\ age[p] = 0 => Held(p, s))
  BY <1>1, Now DEF OnSource, Working
<1>3. x \in Seen
  BY <1>2 DEF StoreTyped
<1>4. PICK y \in CallPcs : /\ call' = [call EXCEPT ![p].v = x, ![p].pc = y]
                           /\ y = "release" \/ (x \in Good /\ y = AfterStaging(s))
  BY DEF StatStaging, AfterStaging, CallPcs, MediaPcs
<1> HIDE DEF x
<1>5. /\ CallsTyped' /\ Others(p) /\ SameView(p)
      /\ call'[p].pc = y /\ call'[p].v = x /\ call'[p].ok = call[p].ok
  BY <1>1, <1>2, <1>3, <1>4, CallLearns
<1>6. BaseSees(p)'
  BY <1>1, <1>5, StillSees
<1>7. CASE y = "release"
  <2>1. CallInv(p)'
    BY <1>5, <1>6, <1>7, Rests
  <2> QED
    BY <1>1, <1>5, <2>1, OnlyCall
<1>8. CASE x \in Good /\ y = AfterStaging(s)
  <2>1. (y = "recordS" /\ s \in Media) \/ (y = "promote" /\ s \notin Media)
    BY <1>8 DEF AfterStaging
  <2>2. CallSees(p)'
    BY <1>1, <1>5, <1>6, <1>8, <2>1 DEF CallSees, BaseSees, SameView, MediaPcs, ArtifactPcs
  <2>3. p \in Users /\ age'[p] = 0 => Held(p, s)'
    BY <1>1, <1>2, <1>5 DEF Held, SameView
  <2>4. CallInv(p)'
    BY <1>5, <2>2, <2>3 DEF CallInv, SameView
  <2> QED
    BY <1>1, <1>5, <2>4, OnlyCall
<1> QED
  BY <1>4, <1>7, <1>8

LEMMA StepStatPromoted ==
  ASSUME IInv, NEW p \in Procs, StatPromoted(p)
  PROVE  IInv' /\ Kept
<1> DEFINE s == call[p].s  tag == Target(p)
<1>1. /\ call[p].pc = "statF" /\ call[p].pc \in CallPcs /\ Pay
      /\ UNCHANGED <<row, phase, age, gap, staging, final, copying, asset, filed, clean>>
  BY DEF StatPromoted, Pay, NoFault, time, store, CallPcs
<1>2. CallsTyped /\ StoreTyped /\ s \in Sessions /\ CallSees(p)
  BY <1>1, Now
<1>3. CASE tag # None
  <2>1. tag \in Good /\ final[s] = tag /\ tag \in Seen
    BY <1>3, Apart DEF Target, Seen
  <2>2. PICK y \in CallPcs : /\ call' = [call EXCEPT ![p].v = tag, ![p].pc = y]
                             /\ (y = "recordE" /\ s \in Media) \/ (y = "record" /\ s \notin Media)
    BY <1>3 DEF StatPromoted, CallPcs, MediaPcs, ArtifactPcs
  <2> HIDE DEF tag
  <2>3. /\ CallsTyped' /\ Others(p) /\ SameView(p)
        /\ call'[p].pc = y /\ call'[p].v = tag /\ call'[p].ok = call[p].ok
    BY <1>1, <1>2, <2>1, <2>2, CallLearns
  <2>4. BaseSees(p)'
    BY <1>1, <2>3, StillSees
  <2>5. s \in Media \/ s \in Artifacts
    BY <1>2 DEF Sessions
  <2>6. CallInv(p)'
    BY <1>1, <1>3, <2>1, <2>2, <2>3, <2>4, <2>5
       DEF CallInv, CallSees, BaseSees, SameView, OnSource, Working, MediaPcs, ArtifactPcs
  <2> QED
    BY <1>1, <2>3, <2>6, OnlyCall
<1>4. CASE tag = None
  <2>1. Goto(p, "release")
    BY <1>4 DEF StatPromoted
  <2> QED
    BY <1>1, <2>1, CallRests
<1> QED
  BY <1>3, <1>4

LEMMA StepManifestStat ==
  ASSUME IInv, NEW p \in Procs, ManifestStat(p)
  PROVE  IInv' /\ Kept
<1> DEFINE s == call[p].s
<1>1. /\ call[p].pc = "mstat" /\ call[p].pc \in CallPcs /\ Pay
      /\ UNCHANGED <<row, phase, age, gap, staging, final, copying, asset, filed, clean>>
  BY DEF ManifestStat, Pay, NoFault, time, store, CallPcs, ArtifactPcs
<1>2. CallsTyped /\ CallSees(p)
  BY <1>1, Now
<1>3. s \in Artifacts
  BY <1>1, <1>2 DEF CallSees, ArtifactPcs
<1>4. ASSUME NEW y \in {"mclaim", "record"}, Goto(p, y), y = "record" => final[s] # None
      PROVE  IInv' /\ Kept
  <2>1. y \in CallPcs
    BY DEF CallPcs, ArtifactPcs
  <2>2. CallsTyped' /\ Others(p) /\ SameView(p) /\ call'[p].pc = y /\ call'[p].ok = call[p].ok
    BY <1>1, <1>2, <1>4, <2>1, Goes
  <2>3. BaseSees(p)'
    BY <1>1, <2>2, StillSees
  <2>4. CallInv(p)'
    BY <1>1, <1>3, <1>4, <2>2, <2>3 DEF CallInv, CallSees, BaseSees, SameView, OnSource, Working,
       MediaPcs
  <2> QED
    BY <1>1, <2>2, <2>4, OnlyCall
<1>5. CASE End(p, FALSE)
  BY <1>1, <1>5, CallRests
<1>6. None \notin Good
  BY Apart
<1> QED
  BY <1>4, <1>5, <1>6 DEF ManifestStat

LEMMA StepManifestValidate ==
  ASSUME IInv, NEW p \in Procs, ManifestValidate(p)
  PROVE  IInv' /\ Kept
<1>1. /\ call[p].pc = "mvalid" /\ call[p].pc \in CallPcs /\ Pay
      /\ UNCHANGED <<row, phase, age, gap, staging, final, copying, asset, filed, clean>>
  BY DEF ManifestValidate, Pay, NoFault, time, store, CallPcs, ArtifactPcs
<1>2. CallsTyped /\ (p \in Users /\ age[p] = 0 => Held(p, call[p].s))
  BY <1>1, Now DEF OnSource
<1>3. CASE Holds(p) /\ Goto(p, "staging")
  <2>1. "staging" \in CallPcs
    BY DEF CallPcs
  <2>2. CallsTyped' /\ Others(p) /\ SameView(p) /\ call'[p].pc = "staging" /\ call'[p].ok = call[p].ok
    BY <1>1, <1>2, <1>3, <2>1, Goes
  <2>3. BaseSees(p)'
    BY <1>1, <2>2, StillSees
  <2>4. CallSees(p)'
    BY <1>1, <1>3, <2>2, <2>3 DEF CallSees, BaseSees, SameView, MediaPcs, ArtifactPcs
  <2>5. p \in Users /\ age'[p] = 0 => Held(p, call[p].s)'
    BY <1>1, <1>2, <2>2 DEF Held, SameView
  <2>6. CallInv(p)'
    BY <2>4, <2>5 DEF CallInv
  <2> QED
    BY <1>1, <2>2, <2>6, OnlyCall
<1>4. CASE Goto(p, "release")
  BY <1>1, <1>4, CallRests
<1> QED
  BY <1>3, <1>4 DEF ManifestValidate

LEMMA StepFail ==
  ASSUME IInv, NEW p \in Procs, Fail(p)
  PROVE  IInv' /\ Kept
<1>1. call[p].pc \in CallPcs /\ Pay /\ UNCHANGED <<row, phase, age, gap, staging, final, copying, asset, filed, clean>>
  BY DEF Fail, Pay, Fault, time, store, CallPcs, MediaPcs, ArtifactPcs
<1>2. End(p, FALSE) \/ Goto(p, "release")
  BY DEF Fail
<1> QED
  BY <1>1, <1>2, CallRests

-----------------------------------------------------------------------------
(* Steps of a call that write                                                *)

\* A step of one call, whatever it changes but the passes
LEMMA CallSteps ==
  ASSUME IInv, NEW p \in Procs, CallsTyped', Others(p), CallInv(p)', Pay, UNCHANGED <<age, gap, clean>>, StoreTyped', RowsTyped',
         \A s \in Sessions : RowKept(s) /\ StoreKept(s) /\ ClaimKept(s) /\ RowInv(s)'
  PROVE  IInv' /\ Kept
<1>1. PassTyped' /\ ClockTyped' /\ Kept
  BY SameClock DEF IInv, Types, PassTyped, Kept
<1>2. \A q \in Procs : call'[q] = call[q] \/ CallInv(q)'
  BY DEF Others
<1>3. \A k \in Cleaners : clean'[k] = clean[k] \/ PassInv(k)'
  OBVIOUS
<1> QED
  BY <1>1, <1>2, <1>3, Together

\* A call claims its session.
LEMMA Claims ==
  ASSUME IInv, NEW p \in Procs, call[p].pc \in CallPcs, NEW s \in Sessions, call[p].s = s, NEW c \in Row,
         c.st = "finalizing", c.tok = p, c.cc = None, c.src = row[s].src, c.etag = row[s].etag,
         SetRow(s, c), TakesClaim(p, s), row[s].st # "finalized", row[s].st = "finalizing" => Lapsed(p),
         UNCHANGED <<phase, staging, final, copying, asset, filed>>
  PROVE  /\ RowsTyped' /\ (\A t \in Sessions : t # s => row'[t] = row[t]) /\ row'[s] = c
         /\ RowKept(s) /\ RowInv(s)' /\ ClockTyped' /\ (\A t \in Sessions : ClaimKept(t))
         /\ (age'[p] = 0 => Held(p, s)')
<1>1. RowsTyped /\ RowInv(s)
  BY Now
<1>2. RowsTyped' /\ (\A t \in Sessions : t # s => row'[t] = row[t]) /\ row'[s] = c
  BY <1>1, RowSet
<1>3. RowKept(s)
  BY <1>2 DEF RowKept
<1>4. \A u \in Users : ~Held(u, s)
  BY DEF Held, Lapsed
<1>5. /\ ClockTyped' /\ \A t \in Sessions : ClaimKept(t)
      /\ age'[p] = age[p] /\ (age[p] = 0 => age'[s] = 0 /\ \A q \in Procs : gap'[q][s] = 0)
  BY <1>2, <1>4, ClaimTaken
<1>6. RowInv(s)'
  BY <1>1, <1>2 DEF RowInv
<1>7. age'[p] = 0 => Held(p, s)'
  BY <1>2, <1>5 DEF Held
<1> QED
  BY <1>2, <1>3, <1>5, <1>6, <1>7

\* A call that holds its claim writes its row.
LEMMA OwnRow ==
  ASSUME IInv, NEW p \in Procs, call[p].pc \in CallPcs, NEW s \in Sessions, call[p].s = s, Holds(p),
         NEW c \in Row, SetRow(s, c), call'[p].pc # call[p].pc, UNCHANGED <<age, gap>>
  PROVE  RowsTyped' /\ (\A t \in Sessions : t # s => row'[t] = row[t]) /\ row'[s] = c /\ ClaimKept(s)
<1>1. RowsTyped
  BY Now
<1>2. RowsTyped' /\ (\A t \in Sessions : t # s => row'[t] = row[t]) /\ row'[s] = c
  BY <1>1, RowSet
<1>3. row[s].tok = p
  BY DEF Holds
<1>4. ClaimKept(s)
  BY <1>3 DEF ClaimKept, Held
<1> QED
  BY <1>2, <1>4

\* A call that goes to another step while a row changes
LEMMA GoesOn ==
  ASSUME IInv, NEW p \in Procs, call[p].pc \in CallPcs, NEW x \in CallPcs, Goto(p, x),
         RowKept(call[p].s), StoreKept(call[p].s)
  PROVE  /\ CallsTyped' /\ Others(p) /\ SameView(p) /\ BaseSees(p)'
         /\ call'[p].pc = x /\ call'[p].fin = call[p].fin /\ call'[p].v = call[p].v /\ call'[p].ok = call[p].ok
<1>1. CallsTyped /\ CallInv(p)
  BY Now
<1>2. /\ CallsTyped' /\ Others(p) /\ SameView(p)
      /\ call'[p].pc = x /\ call'[p].fin = call[p].fin /\ call'[p].v = call[p].v /\ call'[p].ok = call[p].ok
  BY <1>1, Goes
<1> QED
  BY <1>1, <1>2, BaseKeeps

LEMMA ClaimCases ==
  ASSUME NEW p \in Procs, Claim(p)
  PROVE  LET k == call[p]  r == row[k.s] IN
         \/ /\ \E work \in {"staging", "recover", "persist"} :
                 Goto(p, work) /\ (work # "staging" => k.fin # None) /\ (work = "persist" => k.etag # None)
            /\ r.st # "finalized" /\ (r.st = "finalizing" => Lapsed(p))
            /\ TakesClaim(p, k.s)
            /\ \/ SetRow(k.s, [Claimed(r, p) EXCEPT !.cc = None])
               \/ SetRow(k.s, Claimed(r, p)) /\ r.st # "expiring"
         \/ (\E ok \in BOOLEAN : End(p, ok)) /\ UNCHANGED <<row, age, gap>>
<1> DEFINE k == call[p]  r == row[k.s]
           recovery == k.fin # None /\ ~(k.st = "pending" /\ ~k.exp)
           work == CASE k.fin = None -> "staging" [] k.fin # None /\ k.etag = None -> "recover"
                     [] OTHER -> "persist"
<1>1. /\ work \in {"staging", "recover", "persist"} /\ (work # "staging" => k.fin # None)
      /\ (work = "persist" => k.etag # None)
  <2>1. CASE k.fin = None
    BY <2>1
  <2>2. CASE k.fin # None /\ k.etag = None
    BY <2>2
  <2>3. CASE k.fin # None /\ k.etag # None
    BY <2>3
  <2> QED
    BY <2>1, <2>2, <2>3
<1>2. \/ /\ recovery /\ MayRecover(p)
         /\ SetRow(k.s, [Claimed(r, p) EXCEPT !.cc = None]) /\ TakesClaim(p, k.s) /\ Goto(p, work)
      \/ /\ ~recovery /\ k.st \in {"pending", "finalizing"} /\ ~k.exp /\ MayFinalize(p)
         /\ SetRow(k.s, Claimed(r, p)) /\ TakesClaim(p, k.s) /\ Goto(p, work)
      \/ End(p, r.st = "finalized") /\ UNCHANGED <<row, age, gap>>
  BY Zenon DEF Claim
<1> HIDE DEF work, recovery
<1>3. MayRecover(p) => r.st # "finalized" /\ (r.st = "finalizing" => Lapsed(p))
  BY DEF MayRecover
<1>4. MayFinalize(p) => r.st \notin {"finalized", "expiring"} /\ (r.st = "finalizing" => Lapsed(p))
  BY DEF MayFinalize
<1>5. (r.st = "finalized") \in BOOLEAN
  OBVIOUS
<1> QED
  BY <1>1, <1>2, <1>3, <1>4, <1>5

LEMMA StepClaim ==
  ASSUME IInv, NEW p \in Procs, Claim(p)
  PROVE  IInv' /\ Kept
<1>1. /\ call[p].pc = "claim" /\ call[p].pc \in CallPcs /\ Pay
      /\ UNCHANGED <<phase, staging, final, copying, asset, filed, clean>>
  BY DEF Claim, Pay, NoFault, store, CallPcs, MediaPcs
<1>s. PICK s \in Sessions : call[p].s = s
  BY <1>1, Now
<1> DEFINE r == row[s]
<1>2. CallsTyped /\ StoreTyped /\ s \in Sessions /\ CallSees(p) /\ r \in Row /\ RowInv(s)
  BY <1>1, <1>s, Now
<1>3. CASE (\E ok \in BOOLEAN : End(p, ok)) /\ UNCHANGED <<row, age, gap>>
  BY <1>1, <1>3, CallRests
<1>4. ASSUME NEW work \in {"staging", "recover", "persist"}, Goto(p, work),
             work # "staging" => call[p].fin # None, work = "persist" => call[p].etag # None,
             r.st # "finalized", r.st = "finalizing" => Lapsed(p),
             TakesClaim(p, s),
             \/ SetRow(s, [Claimed(r, p) EXCEPT !.cc = None])
             \/ SetRow(s, Claimed(r, p)) /\ r.st # "expiring"
      PROVE  IInv' /\ Kept
  <2>1. PICK c \in Row : /\ SetRow(s, c) /\ c.st = "finalizing" /\ c.tok = p /\ c.cc = None
                         /\ c.src = r.src /\ c.etag = r.etag
    <3>1. LET c == Claimed(r, p)  d == [Claimed(r, p) EXCEPT !.cc = None] IN
          /\ c \in Row /\ c.st = "finalizing" /\ c.tok = p /\ c.cc = r.cc /\ c.src = r.src /\ c.etag = r.etag
          /\ d \in Row /\ d.st = "finalizing" /\ d.tok = p /\ d.cc = None /\ d.src = r.src /\ d.etag = r.etag
      BY <1>2, RowClaimed
    <3>2. CASE SetRow(s, Claimed(r, p)) /\ r.st # "expiring"
      <4>1. r.cc = None
        BY <1>2, <3>2 DEF RowInv
      <4> QED
        BY <3>1, <3>2, <4>1
    <3>3. CASE SetRow(s, [Claimed(r, p) EXCEPT !.cc = None])
      <4> DEFINE d == [Claimed(r, p) EXCEPT !.cc = None]
      <4>1. SetRow(s, d) /\ d \in Row /\ d.st = "finalizing" /\ d.tok = p /\ d.cc = None /\ d.src = r.src /\ d.etag = r.etag
        BY <3>1, <3>3
      <4> HIDE DEF d
      <4> QED
        BY <4>1
    <3> QED
      BY <1>4, <3>2, <3>3
  <2>2. /\ RowsTyped' /\ (\A t \in Sessions : t # s => row'[t] = row[t]) /\ row'[s] = c
        /\ RowKept(s) /\ RowInv(s)' /\ ClockTyped' /\ (\A t \in Sessions : ClaimKept(t))
        /\ (age'[p] = 0 => Held(p, s)')
    BY <1>1, <1>4, <2>1, <1>s, Claims
  <2>3. StoreKept(s)
    BY <1>1, <1>2 DEF StoreKept, StoreTyped
  <2>4. work \in CallPcs
    BY DEF CallPcs, MediaPcs
  <2>5. /\ CallsTyped' /\ Others(p) /\ SameView(p) /\ BaseSees(p)'
        /\ call'[p].pc = work /\ call'[p].fin = call[p].fin /\ call'[p].v = call[p].v /\ call'[p].ok = call[p].ok
    BY <1>1, <1>s, <1>4, <2>2, <2>3, <2>4, GoesOn
  <2>6. s \in Media
    BY <1>1, <1>s, <1>2 DEF CallSees, MediaPcs
  <2>7. work # "staging" =>
          /\ call[p].v \in Good /\ final[s] = call[p].v
          /\ work = "persist" => row[s].etag = call[p].v
    BY <1>1, <1>s, <1>2, <1>4 DEF CallSees, StoreTyped, Objects
  <2>8. CallSees(p)'
    BY <1>1, <2>1, <2>2, <2>5, <2>6, <2>7, <1>s DEF CallSees, BaseSees, SameView, MediaPcs,
       ArtifactPcs
  <2>9. call'[p].s = s
    BY <1>s, <2>5 DEF SameView
  <2>10. CallInv(p)'
    BY <2>2, <2>8, <2>9 DEF CallInv
  <2> QED
    BY <1>1, <1>2, <2>2, <2>5, <2>10, CallClaims
<1> QED
  BY <1>s, <1>3, <1>4, ClaimCases

LEMMA StepManifestClaim ==
  ASSUME IInv, NEW p \in Procs, ManifestClaim(p)
  PROVE  IInv' /\ Kept
<1>1. /\ call[p].pc = "mclaim" /\ call[p].pc \in CallPcs /\ Pay
      /\ UNCHANGED <<phase, staging, final, copying, asset, filed, clean>>
  BY DEF ManifestClaim, Pay, NoFault, store, CallPcs, ArtifactPcs
<1>s. PICK s \in Sessions : call[p].s = s
  BY <1>1, Now
<1> DEFINE r == row[s]
<1>2. CallsTyped /\ StoreTyped /\ s \in Sessions /\ CallSees(p) /\ r \in Row /\ RowInv(s)
  BY <1>1, <1>s, Now
<1>3. CASE MayFinalize(p)
  <2> DEFINE c == Claimed(r, p)
  <2>1. /\ c \in Row /\ c.st = "finalizing" /\ c.tok = p /\ c.cc = r.cc /\ c.src = r.src /\ c.etag = r.etag
        /\ SetRow(s, c) /\ TakesClaim(p, s) /\ Goto(p, "mvalid")
    BY <1>2, <1>3, <1>s, RowClaimed DEF ManifestClaim
  <2> HIDE DEF c
  <2>2. r.st # "finalized" /\ (r.st = "finalizing" => Lapsed(p)) /\ c.cc = None
    BY <1>s, <1>2, <1>3, <2>1 DEF MayFinalize, RowInv
  <2>3. /\ RowsTyped' /\ (\A t \in Sessions : t # s => row'[t] = row[t]) /\ row'[s] = c
        /\ RowKept(s) /\ RowInv(s)' /\ ClockTyped' /\ (\A t \in Sessions : ClaimKept(t))
        /\ (age'[p] = 0 => Held(p, s)')
    BY <1>1, <2>1, <2>2, <1>s, Claims
  <2>4. StoreKept(s) /\ "mvalid" \in CallPcs
    BY <1>1, <1>2 DEF StoreKept, StoreTyped, CallPcs, ArtifactPcs
  <2>5. /\ CallsTyped' /\ Others(p) /\ SameView(p) /\ BaseSees(p)'
        /\ call'[p].pc = "mvalid" /\ call'[p].ok = call[p].ok
    BY <1>1, <1>s, <2>1, <2>3, <2>4, GoesOn
  <2>6. s \in Artifacts
    BY <1>1, <1>s, <1>2 DEF CallSees, ArtifactPcs
  <2>7. CallSees(p)' /\ call'[p].s = s
    BY <1>1, <2>1, <2>3, <2>5, <2>6, <1>s DEF CallSees, BaseSees, SameView, MediaPcs, ArtifactPcs
  <2>8. CallInv(p)'
    BY <2>3, <2>7 DEF CallInv
  <2> QED
    BY <1>1, <1>2, <2>3, <2>5, <2>8, CallClaims
<1>4. CASE ~MayFinalize(p)
  <2>1. End(p, FALSE) /\ UNCHANGED <<row, age, gap>>
    BY <1>4 DEF ManifestClaim
  <2> QED
    BY <1>1, <2>1, CallRests
<1> QED
  BY <1>3, <1>4

LEMMA StepRecordPromotionSourceETag ==
  ASSUME IInv, NEW p \in Procs, RecordPromotionSourceETag(p)
  PROVE  IInv' /\ Kept
<1>1. /\ call[p].pc = "recordS" /\ call[p].pc \in CallPcs /\ Pay
      /\ UNCHANGED <<phase, age, gap, staging, final, copying, asset, filed, clean>>
  BY DEF RecordPromotionSourceETag, Pay, NoFault, time, store, CallPcs, MediaPcs
<1>s. PICK s \in Sessions : call[p].s = s
  BY <1>1, Now
<1> DEFINE r == row[s]  v == call[p].v
<1>2. /\ CallsTyped /\ StoreTyped /\ CallSees(p) /\ r \in Row /\ RowInv(s)
      /\ (p \in Users /\ age[p] = 0 => Held(p, s))
  BY <1>1, <1>s, Now DEF OnSource, Working
<1>3. v \in Good /\ v \in Seen /\ v # None /\ s \in Media
  BY <1>1, <1>s, <1>2, Apart DEF CallSees, Seen, MediaPcs
<1>4. CASE Holds(p)
  <2> DEFINE c == [r EXCEPT !.src = v]
  <2>1. c \in Row /\ c.st = r.st /\ c.tok = r.tok /\ c.cc = r.cc /\ c.src = v /\ c.etag = r.etag
    BY <1>2, <1>3, RowTagged
  <2>2. SetRow(s, c) /\ Goto(p, "promote")
    BY <1>s, <1>4 DEF RecordPromotionSourceETag
  <2> HIDE DEF c
  <2>3. "promote" \in CallPcs
    BY DEF CallPcs
  <2>4. call'[p].pc = "promote"
    BY <1>1, <1>2, <2>2, <2>3, Goes
  <2>5. RowsTyped' /\ (\A t \in Sessions : t # s => row'[t] = row[t]) /\ row'[s] = c /\ ClaimKept(s)
    BY <1>1, <1>s, <1>4, <2>1, <2>2, <2>4, OwnRow
  <2>6. RowKept(s) /\ StoreKept(s)
    BY <1>1, <1>2, <1>3, <2>1, <2>5 DEF RowKept, StoreKept, StoreTyped
  <2>7. RowInv(s)'
    BY <1>1, <1>2, <1>3, <2>1, <2>5 DEF RowInv
  <2>8. /\ CallsTyped' /\ Others(p) /\ SameView(p) /\ BaseSees(p)'
        /\ call'[p].pc = "promote" /\ call'[p].v = v /\ call'[p].ok = call[p].ok
    BY <1>1, <1>s, <2>2, <2>3, <2>6, GoesOn
  <2>9. CallSees(p)'
    BY <1>s, <1>3, <2>1, <2>5, <2>8 DEF CallSees, BaseSees, SameView, MediaPcs, ArtifactPcs
  <2>10. call'[p].s = s /\ (p \in Users /\ age'[p] = 0 => Held(p, s)')
    BY <1>1, <1>s, <1>2, <2>1, <2>5, <2>8 DEF Held, SameView
  <2>11. CallInv(p)'
    BY <2>9, <2>10 DEF CallInv
  <2> QED
    BY <1>1, <2>5, <2>6, <2>7, <2>8, <2>11, CallAndRow
<1>5. CASE ~Holds(p)
  <2>1. Goto(p, "release") /\ UNCHANGED row
    BY <1>5 DEF RecordPromotionSourceETag
  <2> QED
    BY <1>1, <2>1, CallRests
<1> QED
  BY <1>4, <1>5

LEMMA StepRecordFinalizationETag ==
  ASSUME IInv, NEW p \in Procs, RecordFinalizationETag(p)
  PROVE  IInv' /\ Kept
<1>1. /\ call[p].pc = "recordE" /\ call[p].pc \in CallPcs /\ Pay
      /\ UNCHANGED <<phase, age, gap, staging, final, copying, asset, filed, clean>>
  BY DEF RecordFinalizationETag, Pay, NoFault, time, store, CallPcs, MediaPcs
<1>s. PICK s \in Sessions : call[p].s = s
  BY <1>1, Now
<1> DEFINE r == row[s]  v == call[p].v
<1>2. CallsTyped /\ StoreTyped /\ CallSees(p) /\ r \in Row /\ RowInv(s)
  BY <1>1, <1>s, Now
<1>3. v \in Good /\ v \in Seen /\ v # None /\ s \in Media /\ final[s] = v
  BY <1>1, <1>s, <1>2, Apart DEF CallSees, Seen, MediaPcs
<1>4. CASE Holds(p)
  <2> DEFINE c == [r EXCEPT !.etag = v]
  <2>1. c \in Row /\ c.st = r.st /\ c.tok = r.tok /\ c.cc = r.cc /\ c.src = r.src /\ c.etag = v
    BY <1>2, <1>3, RowTagged
  <2>2. SetRow(s, c) /\ Goto(p, "persist") /\ r.st = "finalizing"
    BY <1>s, <1>4 DEF RecordFinalizationETag, Holds
  <2> HIDE DEF c
  <2>3. "persist" \in CallPcs
    BY DEF CallPcs, MediaPcs
  <2>4. call'[p].pc = "persist"
    BY <1>1, <1>2, <2>2, <2>3, Goes
  <2>5. RowsTyped' /\ (\A t \in Sessions : t # s => row'[t] = row[t]) /\ row'[s] = c /\ ClaimKept(s)
    BY <1>1, <1>s, <1>4, <2>1, <2>2, <2>4, OwnRow
  <2>6. RowKept(s) /\ StoreKept(s)
    BY <1>1, <1>2, <1>3, <2>1, <2>5 DEF RowKept, StoreKept, StoreTyped, RowInv
  <2>7. RowInv(s)'
    BY <1>1, <1>2, <1>3, <2>1, <2>2, <2>5 DEF RowInv
  <2>8. /\ CallsTyped' /\ Others(p) /\ SameView(p) /\ BaseSees(p)'
        /\ call'[p].pc = "persist" /\ call'[p].v = v /\ call'[p].ok = call[p].ok
    BY <1>1, <1>s, <2>2, <2>3, <2>6, GoesOn
  <2>9. CallInv(p)'
    BY <1>1, <1>s, <1>3, <2>1, <2>5, <2>8
       DEF CallInv, CallSees, BaseSees, SameView, OnSource, Working, MediaPcs, ArtifactPcs
  <2> QED
    BY <1>1, <2>5, <2>6, <2>7, <2>8, <2>9, CallAndRow
<1>5. CASE ~Holds(p)
  <2>1. Goto(p, "release") /\ UNCHANGED row
    BY <1>5 DEF RecordFinalizationETag
  <2> QED
    BY <1>1, <2>1, CallRests
<1> QED
  BY <1>4, <1>5

\* A call that gave its claim back ends, or deletes the staging object of a recorded manifest.
LEMMA Released ==
  ASSUME IInv, NEW p \in Procs, call[p].pc = "release", RowKept(call[p].s), StoreKept(call[p].s),
         IF call[p].ok THEN Goto(p, "delete") ELSE End(p, FALSE)
  PROVE  CallsTyped' /\ Others(p) /\ CallInv(p)' /\ call'[p].pc # "release"
<1>1. "release" \in CallPcs /\ "delete" \in CallPcs
  BY DEF CallPcs
<1>2. CallsTyped /\ CallSees(p)
  BY <1>1, Now
<1>3. CASE call[p].ok
  <2>1. /\ CallsTyped' /\ Others(p) /\ SameView(p) /\ BaseSees(p)'
        /\ call'[p].pc = "delete" /\ call'[p].ok = call[p].ok
    BY <1>1, <1>3, GoesOn
  <2>2. CallInv(p)'
    BY <1>3, <2>1 DEF CallInv, CallSees, BaseSees, OnSource, Working, MediaPcs, ArtifactPcs
  <2> QED
    BY <2>1, <2>2
<1>4. CASE ~call[p].ok
  <2>1. CallsTyped' /\ call'[p].pc \notin CallPcs /\ Others(p)
    BY <1>2, <1>4, CallEnds
  <2> QED
    BY <1>1, <2>1, EndsWell
<1> QED
  BY <1>3, <1>4

\* The claims of a call that is gone are nobody's.
LEMMA OrphanKeeps ==
  ASSUME IInv, NEW p \in Procs, Orphan(p), p \in Users => ~OnSource(p)',
         UNCHANGED <<phase, age, gap, staging, final, copying, asset, filed>>
  PROVE  RowsTyped' /\ \A s \in Sessions : RowKept(s) /\ StoreKept(s) /\ ClaimKept(s) /\ RowInv(s)'
<1>1. RowsTyped /\ StoreTyped /\ \A s \in Sessions : RowInv(s)
  BY DEF IInv, Types
<1>2. /\ RowsTyped'
      /\ \A s \in Sessions :
           /\ row'[s].st = row[s].st /\ row'[s].src = row[s].src /\ row'[s].etag = row[s].etag
           /\ row'[s].tok = IF row[s].tok = p THEN Gone ELSE row[s].tok
           /\ row'[s].cc = IF row[s].cc = p THEN Gone ELSE row[s].cc
  BY <1>1, Orphaned
<1>3. None # p
  BY Apart
<1>4. ASSUME NEW s \in Sessions
      PROVE  RowKept(s) /\ StoreKept(s) /\ ClaimKept(s) /\ RowInv(s)'
  <2>1. /\ row'[s].st = row[s].st /\ row'[s].src = row[s].src /\ row'[s].etag = row[s].etag
        /\ row'[s].tok = IF row[s].tok = p THEN Gone ELSE row[s].tok
        /\ row'[s].cc = IF row[s].cc = p THEN Gone ELSE row[s].cc
    BY <1>2
  <2>2. RowKept(s) /\ StoreKept(s)
    BY <1>1, <2>1 DEF RowKept, StoreKept, StoreTyped
  <2>3. ClaimKept(s)
    BY <2>1 DEF ClaimKept, Held, OnSource
  <2>4. RowInv(s)'
    BY <1>1, <1>3, <2>1 DEF RowInv
  <2> QED
    BY <2>2, <2>3, <2>4
<1> QED
  BY <1>2, <1>4

LEMMA StepRelease ==
  ASSUME IInv, NEW p \in Procs, Release(p)
  PROVE  IInv' /\ Kept
<1>1. /\ call[p].pc = "release" /\ call[p].pc \in CallPcs /\ Pay
      /\ UNCHANGED <<phase, age, gap, staging, final, copying, asset, filed, clean>>
      /\ IF call[p].ok THEN Goto(p, "delete") ELSE End(p, FALSE)
  BY DEF Release, Pay, NoFault, Fault, time, store, CallPcs
<1>s. PICK s \in Sessions : call[p].s = s
  BY <1>1, Now
<1>2. CallsTyped /\ StoreTyped /\ row[s] \in Row /\ RowInv(s) /\ StoreTyped'
  BY <1>1, <1>s, Now DEF StoreTyped
<1>0. call'[p].pc # call[p].pc /\ ~OnSource(p)'
  <2>1. CASE call[p].ok
    <3>1. "delete" \in CallPcs
      BY DEF CallPcs
    <3>2. call'[p].pc = "delete"
      BY <1>1, <1>2, <2>1, <3>1, Goes
    <3> QED
      BY <1>1, <3>2 DEF OnSource, Working
  <2>2. CASE ~call[p].ok
    <3>1. call'[p].pc \notin CallPcs
      BY <1>1, <1>2, <2>2, CallEnds
    <3> QED
      BY <1>1, <3>1 DEF OnSource, Working, CallPcs, MediaPcs, ArtifactPcs
  <2> QED
    BY <2>1, <2>2
<1>3. CASE MayRelease(p) /\ SetRow(s, [row[s] EXCEPT !.st = "pending", !.tok = None])
  <2> DEFINE c == [row[s] EXCEPT !.st = "pending", !.tok = None]
  <2>1. c \in Row /\ c.st = "pending" /\ c.tok = None /\ c.cc = row[s].cc /\ c.src = row[s].src /\ c.etag = row[s].etag
    BY <1>2, RowFreed
  <2>2. SetRow(s, c) /\ Holds(p) /\ row[s].st = "finalizing"
    BY <1>s, <1>3 DEF MayRelease, Holds
  <2> HIDE DEF c
  <2>3. RowsTyped' /\ (\A t \in Sessions : t # s => row'[t] = row[t]) /\ row'[s] = c /\ ClaimKept(s)
    BY <1>0, <1>1, <1>s, <2>1, <2>2, OwnRow
  <2>4. RowKept(s) /\ StoreKept(s)
    BY <1>1, <1>2, <2>1, <2>2, <2>3 DEF RowKept, StoreKept, StoreTyped
  <2>5. RowInv(s)'
    BY <1>1, <1>2, <2>1, <2>2, <2>3, Apart DEF RowInv
  <2>6. CallsTyped' /\ Others(p) /\ CallInv(p)'
    BY <1>1, <1>s, <2>4, Released
  <2> QED
    BY <1>1, <2>3, <2>4, <2>5, <2>6, CallAndRow
<1>4. CASE UNCHANGED row
  <2>1. RowKept(s) /\ StoreKept(s) /\ RowInv(s)'
    BY <1>1, <1>2, <1>4, SameSession
  <2>2. CallsTyped' /\ Others(p) /\ CallInv(p)'
    BY <1>1, <1>s, <2>1, Released
  <2> QED
    BY <1>1, <1>4, <2>2, OnlyCall
<1>5. CASE Orphan(p)
  <2>1. RowsTyped' /\ \A t \in Sessions : RowKept(t) /\ StoreKept(t) /\ ClaimKept(t) /\ RowInv(t)'
    BY <1>0, <1>1, <1>5, OrphanKeeps
  <2>2. CallsTyped' /\ Others(p) /\ CallInv(p)'
    BY <1>1, <1>s, <2>1, Released
  <2> QED
    BY <1>1, <1>2, <2>1, <2>2, CallSteps
<1> QED
  BY <1>s, <1>3, <1>4, <1>5 DEF Release

LEMMA StepPersist ==
  ASSUME IInv, NEW p \in Procs, Persist(p)
  PROVE  IInv' /\ Kept
<1>1. /\ call[p].pc = "persist" /\ call[p].pc \in CallPcs
      /\ UNCHANGED <<phase, age, gap, staging, final, copying, filed, clean>>
  BY DEF Persist, time, store, CallPcs, MediaPcs
<1>p. Pay
  BY DEF Persist, NoFault, Fault, Pay
<1>s. PICK s \in Sessions : call[p].s = s
  BY <1>1, Now
<1> DEFINE v == call[p].v
<1>2. CallsTyped /\ RowsTyped /\ StoreTyped /\ CallSees(p) /\ row[s] \in Row /\ RowInv(s)
  BY <1>1, <1>s, Now
<1>3. v \in Good /\ v \in Seen /\ v # None /\ s \in Media /\ final[s] = v /\ row[s].etag = v
  BY <1>1, <1>s, <1>2, Apart DEF CallSees, Seen, MediaPcs
<1>4. CASE MayPersist(p)
  <2> DEFINE c == [row[s] EXCEPT !.st = "finalized", !.tok = None]
  <2>1. c \in Row /\ c.st = "finalized" /\ c.tok = None /\ c.cc = row[s].cc /\ c.src = row[s].src /\ c.etag = row[s].etag
    BY <1>2, RowFreed
  <2>2. SetRow(s, c) /\ Holds(p) /\ row[s].st = "finalizing" /\ asset' = [asset EXCEPT ![s] = v]
    BY <1>s, <1>4 DEF Persist, MayPersist, Holds
  <2> HIDE DEF c
  <2>3. PICK y \in {"delete", "release"} : Goto(p, y)
    BY <1>4 DEF Persist
  <2>4. y \in CallPcs /\ y # "persist"
    BY DEF CallPcs
  <2>5. call'[p].pc = y
    BY <1>1, <1>2, <2>3, <2>4, Goes
  <2>6. RowsTyped' /\ (\A t \in Sessions : t # s => row'[t] = row[t]) /\ row'[s] = c /\ ClaimKept(s)
    BY <1>1, <1>s, <2>1, <2>2, <2>4, <2>5, OwnRow
  <2>7. StoreTyped' /\ asset'[s] = v /\ \A t \in Sessions : t # s => asset'[t] = asset[t]
    BY <1>1, <1>2, <1>3, <2>2 DEF StoreTyped
  <2>8. RowKept(s) /\ StoreKept(s)
    BY <1>1, <1>2, <2>1, <2>2, <2>6 DEF RowKept, StoreKept, StoreTyped
  <2>9. RowInv(s)'
    BY <1>1, <1>2, <1>3, <2>1, <2>2, <2>6, <2>7, Apart DEF RowInv
  <2>10. ASSUME NEW t \in Sessions, t # s
         PROVE  RowKept(t) /\ StoreKept(t) /\ ClaimKept(t) /\ RowInv(t)'
    <3>1. row'[t] = row[t] /\ asset'[t] = asset[t] /\ RowInv(t)
      BY <2>6, <2>7, <2>10 DEF IInv
    <3>2. RowKept(t) /\ StoreKept(t) /\ ClaimKept(t)
      BY <1>1, <1>2, <3>1 DEF RowKept, StoreKept, StoreTyped, ClaimKept, Held
    <3>3. RowInv(t)'
      BY <1>1, <3>1 DEF RowInv
    <3> QED
      BY <3>2, <3>3
  <2>11. CallsTyped' /\ Others(p) /\ SameView(p) /\ BaseSees(p)' /\ call'[p].pc = y
    BY <1>1, <1>s, <2>3, <2>4, <2>8, GoesOn
  <2>12. CallInv(p)'
    BY <1>s, <2>1, <2>6, <2>11 DEF CallInv, CallSees, BaseSees, SameView, OnSource, Working,
       MediaPcs, ArtifactPcs
  <2>13. \A t \in Sessions : RowKept(t) /\ StoreKept(t) /\ ClaimKept(t) /\ RowInv(t)'
    BY <2>6, <2>8, <2>9, <2>10
  <2> QED
    BY <1>1, <1>p, <2>6, <2>7, <2>11, <2>12, <2>13, CallSteps
<1>5. CASE ~MayPersist(p)
  <2>1. Goto(p, "release") /\ UNCHANGED <<row, asset>>
    BY <1>5 DEF Persist
  <2> QED
    BY <1>1, <1>p, <2>1, CallRests
<1> QED
  BY <1>4, <1>5

\* A copy lands, or is under way, or has ended: its content is good and its source on record.
LEMMA Copies ==
  ASSUME StoreTyped, \A t \in Sessions : RowInv(t), NEW s \in Sessions, NEW v \in Good,
         s \in Media => row[s].src # None,
         UNCHANGED final \/ (final[s] = None /\ final' = [final EXCEPT ![s] = v]),
         UNCHANGED copying \/ \E x \in {v, None} : copying' = [copying EXCEPT ![s] = x],
         UNCHANGED <<row, phase, age, gap, staging, asset, filed>>
  PROVE  StoreTyped' /\ \A t \in Sessions : RowKept(t) /\ StoreKept(t) /\ ClaimKept(t) /\ RowInv(t)'
<1>1. v # None /\ v \in Objects /\ None \in Objects /\ None \notin Good
  BY Apart DEF Objects
<1>2. final' \in [Sessions -> Objects] /\ copying' \in [Sessions -> Objects]
  BY <1>1 DEF StoreTyped
<1>3. StoreTyped'
  BY <1>2 DEF StoreTyped
<1>4. \A t \in Sessions : /\ final[t] # None => final'[t] = final[t]
                          /\ t # s => final'[t] = final[t] /\ copying'[t] = copying[t]
                          /\ final'[t] = final[t] \/ final[t] = None
  BY DEF StoreTyped
<1>5. ASSUME NEW t \in Sessions
      PROVE  RowKept(t) /\ StoreKept(t) /\ ClaimKept(t) /\ RowInv(t)'
  <2>1. RowKept(t) /\ StoreKept(t) /\ ClaimKept(t)
    BY <1>4 DEF RowKept, StoreKept, StoreTyped, ClaimKept, Held
  <2>2. RowInv(t)'
    <3>1. CASE t = s
      BY <1>1, <1>4, <3>1 DEF RowInv
    <3>2. CASE t # s
      BY <1>4, <3>2 DEF RowInv
    <3> QED
      BY <3>1, <3>2
  <2> QED
    BY <2>1, <2>2
<1> QED
  BY <1>3, <1>5

LEMMA StepPromote ==
  ASSUME IInv, NEW p \in Procs, Promote(p)
  PROVE  IInv' /\ Kept
<1>1. /\ call[p].pc = "promote" /\ call[p].pc \in CallPcs
      /\ UNCHANGED <<row, phase, age, gap, staging, asset, filed, clean>>
  BY DEF Promote, CallPcs, time
<1>p. Pay
  BY DEF Promote, NoFault, Fault, Pay
<1>s. PICK s \in Sessions : call[p].s = s
  BY <1>1, Now
<1> DEFINE v == call[p].v
<1>2. CallsTyped /\ RowsTyped /\ RowsTyped' /\ StoreTyped /\ CallSees(p) /\ CallInv(p)
  BY <1>1, <1>s, Now DEF RowsTyped
<1>3. v \in Good /\ (s \in Media => row[s].src # None)
  BY <1>1, <1>s, <1>2 DEF CallSees
<1>4. /\ UNCHANGED final \/ (final[s] = None /\ final' = [final EXCEPT ![s] = v])
      /\ UNCHANGED copying \/ copying' = [copying EXCEPT ![s] = v]
  BY <1>s DEF Promote
<1>5. StoreTyped' /\ \A t \in Sessions : RowKept(t) /\ StoreKept(t) /\ ClaimKept(t) /\ RowInv(t)'
  <2>1. \A t \in Sessions : RowInv(t)
    BY DEF IInv
  <2>2. UNCHANGED copying \/ \E x \in {v, None} : copying' = [copying EXCEPT ![s] = x]
    BY <1>4
  <2> QED
    BY <1>1, <1>2, <1>3, <1>4, <2>1, <2>2, Copies
<1>6. \/ call' = [call EXCEPT ![p].pc = "statF", ![p].prom = TRUE]
      \/ Goto(p, "statF") \/ Goto(p, "release")
  BY DEF Promote
<1>7. "statF" \in CallPcs /\ "release" \in CallPcs
  BY DEF CallPcs
<1>8. PICK y \in {"statF", "release"} : /\ CallsTyped' /\ Others(p) /\ SameView(p)
                                        /\ call'[p].pc = y /\ call'[p].ok = call[p].ok
  <2>1. CASE call' = [call EXCEPT ![p].pc = "statF", ![p].prom = TRUE]
    BY <1>1, <1>2, <1>7, <2>1, CallPromotes
  <2>2. CASE Goto(p, "statF")
    BY <1>1, <1>2, <1>7, <2>2, Goes
  <2>3. CASE Goto(p, "release")
    BY <1>1, <1>2, <1>7, <2>3, Goes
  <2> QED
    BY <1>6, <2>1, <2>2, <2>3
<1>9. BaseSees(p)'
  BY <1>1, <1>s, <1>2, <1>5, <1>8, BaseKeeps
<1>10. CallInv(p)'
  BY <1>8, <1>9, Rests
<1> QED
  BY <1>1, <1>p, <1>2, <1>5, <1>8, <1>10, CallSteps

\* The staging object of a session goes, or stays.
LEMMA Empties ==
  ASSUME StoreTyped, \A t \in Sessions : RowInv(t), NEW s \in Sessions,
         staging' = [staging EXCEPT ![s] = None] \/ UNCHANGED staging,
         UNCHANGED <<row, phase, age, gap, final, copying, asset, filed>>
  PROVE  StoreTyped' /\ \A t \in Sessions : RowKept(t) /\ StoreKept(t) /\ ClaimKept(t) /\ RowInv(t)'
<1>1. staging' \in [Sessions -> Seen] /\ \A t \in Sessions : staging[t] = None => staging'[t] = None
  BY DEF StoreTyped, Seen
<1>2. StoreTyped'
  BY <1>1 DEF StoreTyped
<1>3. ASSUME NEW t \in Sessions
      PROVE  RowKept(t) /\ StoreKept(t) /\ ClaimKept(t) /\ RowInv(t)'
  <2>1. RowKept(t) /\ StoreKept(t) /\ ClaimKept(t)
    BY <1>1 DEF RowKept, StoreKept, StoreTyped, ClaimKept, Held
  <2>2. RowInv(t)'
    BY <1>1 DEF RowInv
  <2> QED
    BY <2>1, <2>2
<1> QED
  BY <1>2, <1>3

LEMMA StepDeleteStaging ==
  ASSUME IInv, NEW p \in Procs, DeleteStaging(p)
  PROVE  IInv' /\ Kept
<1>1. /\ call[p].pc = "delete" /\ call[p].pc \in CallPcs /\ End(p, TRUE)
      /\ UNCHANGED <<row, phase, age, gap, final, copying, asset, filed, clean>>
  BY DEF DeleteStaging, CallPcs, time
<1>p. Pay
  BY DEF DeleteStaging, NoFault, Fault, Pay
<1>s. PICK s \in Sessions : call[p].s = s
  BY <1>1, Now
<1>2. CallsTyped /\ RowsTyped' /\ StoreTyped
  BY <1>1, <1>s, Now DEF RowsTyped
<1>3. staging' = [staging EXCEPT ![s] = None] \/ UNCHANGED staging
  BY <1>s DEF DeleteStaging
<1>4. StoreTyped' /\ \A t \in Sessions : RowKept(t) /\ StoreKept(t) /\ ClaimKept(t) /\ RowInv(t)'
  <2>1. \A t \in Sessions : RowInv(t)
    BY DEF IInv
  <2> QED
    BY <1>1, <1>2, <1>3, <2>1, Empties
<1>5. CallsTyped' /\ call'[p].pc \notin CallPcs /\ Others(p)
  BY <1>1, <1>2, CallEnds
<1>6. CallInv(p)'
  BY <1>5, EndsWell
<1> QED
  BY <1>1, <1>p, <1>2, <1>4, <1>5, <1>6, CallSteps

LEMMA StepManifestRecord ==
  ASSUME IInv, NEW p \in Procs, ManifestRecord(p)
  PROVE  IInv' /\ Kept
<1>1. /\ call[p].pc = "record" /\ call[p].pc \in CallPcs /\ Pay
      /\ call' = [call EXCEPT ![p].pc = "release", ![p].ok = TRUE]
      /\ UNCHANGED <<row, phase, age, gap, staging, final, copying, asset, clean>>
  BY DEF ManifestRecord, Pay, NoFault, time, store, CallPcs, ArtifactPcs
<1>s. PICK s \in Sessions : call[p].s = s
  BY <1>1, Now
<1>2. CallsTyped /\ RowsTyped /\ RowsTyped' /\ StoreTyped /\ CallSees(p)
  BY <1>1, <1>s, Now DEF RowsTyped
<1>3. s \in Artifacts /\ final[s] # None /\ filed' = filed \cup {s}
  BY <1>1, <1>s, <1>2 DEF CallSees, ArtifactPcs, ManifestRecord
<1>4. StoreTyped'
  BY <1>1, <1>2, <1>3 DEF StoreTyped
<1>5. ASSUME NEW t \in Sessions
      PROVE  RowKept(t) /\ StoreKept(t) /\ ClaimKept(t) /\ RowInv(t)'
  <2>1. RowInv(t)
    BY DEF IInv
  <2>2. RowKept(t) /\ StoreKept(t) /\ ClaimKept(t)
    BY <1>1, <1>2, <1>3 DEF RowKept, StoreKept, StoreTyped, ClaimKept, Held
  <2>3. RowInv(t)'
    BY <1>1, <1>3, <2>1 DEF RowInv
  <2> QED
    BY <2>2, <2>3
<1>6. "release" \in CallPcs
  BY DEF CallPcs
<1>7. CallsTyped' /\ Others(p) /\ SameView(p) /\ call'[p].pc = "release"
  BY <1>1, <1>2, <1>6, CallRecords
<1>8. BaseSees(p)'
  BY <1>1, <1>s, <1>2, <1>3, <1>7 DEF CallSees, BaseSees, SameView
<1>9. CallInv(p)'
  BY <1>7, <1>8, Rests
<1> QED
  BY <1>1, <1>2, <1>4, <1>5, <1>7, <1>9, CallSteps

-----------------------------------------------------------------------------
(* Steps of the clients, the clock, the store and crashes                    *)

LEMMA StepPut ==
  ASSUME IInv, NEW s \in Sessions, Put(s)
  PROVE  IInv' /\ Kept
<1>1. /\ phase[s] < 2 /\ Pay /\ UNCHANGED <<row, phase, age, gap, final, copying, asset, filed, call, clean>>
  BY DEF Put, Pay, time
<1>2. StoreTyped /\ RowsTyped /\ RowsTyped' /\ ClockTyped' /\ budget \in UploadBudget
  BY <1>1, Spent, SameClock DEF IInv, Types, RowsTyped
<1>3. PICK x \in Contents : staging' = [staging EXCEPT ![s] = x]
  BY <1>2 DEF Put, UploadBudget
<1>4. StoreTyped' /\ \A t \in Sessions : t # s => staging'[t] = staging[t]
  BY <1>1, <1>2, <1>3 DEF StoreTyped, Seen
<1>5. ASSUME NEW t \in Sessions
      PROVE  RowKept(t) /\ StoreKept(t) /\ ClaimKept(t) /\ RowInv(t)'
  <2>1. RowInv(t) /\ phase[t] \in 0..2
    BY <1>2 DEF IInv, StoreTyped
  <2>2. RowKept(t) /\ StoreKept(t) /\ ClaimKept(t)
    BY <1>1, <1>2, <1>4 DEF RowKept, StoreKept, StoreTyped, ClaimKept, Held
  <2>3. RowInv(t)'
    BY <1>1, <1>4, <2>1 DEF RowInv
  <2> QED
    BY <2>2, <2>3
<1> QED
  BY <1>1, <1>2, <1>4, <1>5, NoCallNoPass

\* Nothing of a row changes but when it is cleaned up again.
SameRow(t) ==
  /\ row'[t].st = row[t].st /\ row'[t].tok = row[t].tok /\ row'[t].cc = row[t].cc
  /\ row'[t].src = row[t].src /\ row'[t].etag = row[t].etag

\* A session's time passes.
LEMMA Later ==
  ASSUME IInv, NEW s \in Sessions, NEW n \in {1, 2}, phase[s] < n, phase' = [phase EXCEPT ![s] = n],
         UNCHANGED <<age, gap, staging, final, copying, asset, filed, call, clean>>, Pay,
         RowsTyped', \A t \in Sessions : SameRow(t)
  PROVE  IInv' /\ Kept
<1>1. StoreTyped
  BY DEF IInv, Types
<1>2. StoreTyped' /\ \A t \in Sessions : phase'[t] = IF t = s THEN n ELSE phase[t]
  BY <1>1 DEF StoreTyped
<1>3. ASSUME NEW t \in Sessions
      PROVE  RowKept(t) /\ StoreKept(t) /\ ClaimKept(t) /\ RowInv(t)'
  <2>1. RowInv(t) /\ SameRow(t) /\ phase[t] \in 0..2 /\ phase[t] <= phase'[t] /\ (phase[t] = 2 => phase'[t] = 2)
    BY <1>1, <1>2 DEF IInv, StoreTyped
  <2>2. RowKept(t) /\ StoreKept(t) /\ ClaimKept(t)
    BY <2>1 DEF SameRow, RowKept, StoreKept, ClaimKept, Held
  <2>3. phase[t] > 0 => phase'[t] > 0
    BY <1>1, <1>2 DEF StoreTyped
  <2>4. RowInv(t)'
    BY <2>1, <2>3 DEF SameRow, RowInv
  <2> QED
    BY <2>2, <2>4
<1>4. ClockTyped'
  BY SameClock
<1> QED
  BY <1>2, <1>3, <1>4, NoCallNoPass

\* The rows of a step that changes none, or only when a session is cleaned up again
LEMMA NextCleared ==
  ASSUME RowsTyped, NEW s \in Sessions, UNCHANGED row \/ SetRow(s, [row[s] EXCEPT !.next = FALSE])
  PROVE  RowsTyped' /\ \A t \in Sessions : SameRow(t)
<1>1. row[s] \in Row
  BY DEF RowsTyped
<1>2. CASE UNCHANGED row
  BY <1>2 DEF RowsTyped, SameRow
<1>3. CASE SetRow(s, [row[s] EXCEPT !.next = FALSE])
  <2> DEFINE c == [row[s] EXCEPT !.next = FALSE]
  <2>1. /\ c \in Row /\ SetRow(s, c) /\ c.st = row[s].st /\ c.tok = row[s].tok /\ c.cc = row[s].cc
        /\ c.src = row[s].src /\ c.etag = row[s].etag
    BY <1>1, <1>3, RowTimed
  <2> HIDE DEF c
  <2>2. RowsTyped' /\ row'[s] = c /\ \A t \in Sessions : t # s => row'[t] = row[t]
    BY <2>1, RowSet
  <2> QED
    BY <2>1, <2>2 DEF SameRow
<1> QED
  BY <1>2, <1>3

LEMMA StepExpire ==
  ASSUME IInv, NEW s \in Sessions, Expire(s) \/ ExpireArtifact(s) \/ GraceEnds(s)
  PROVE  IInv' /\ Kept
<1>1. Pay /\ UNCHANGED <<age, gap, staging, final, copying, asset, filed, call, clean>>
  BY DEF Expire, ExpireArtifact, GraceEnds, Pay, NoFault, store
<1>2. UNCHANGED row \/ SetRow(s, [row[s] EXCEPT !.next = FALSE])
  BY DEF Expire, ExpireArtifact, GraceEnds, NextComes
<1>3. PICK n \in {1, 2} : phase[s] < n /\ phase' = [phase EXCEPT ![s] = n]
  BY DEF Expire, ExpireArtifact, GraceEnds
<1>4. RowsTyped
  BY DEF IInv, Types
<1>5. RowsTyped' /\ \A t \in Sessions : SameRow(t)
  BY <1>2, <1>4, NextCleared
<1> QED
  BY <1>1, <1>3, <1>5, Later

LEMMA StepTimer ==
  ASSUME IInv, NEW s \in Sessions, RetryDue(s)
  PROVE  IInv' /\ Kept
<1>1. Pay /\ UNCHANGED <<phase, age, gap, staging, final, copying, asset, filed, call, clean>>
  BY DEF RetryDue, Pay, NoFault, store
<1>2. SetRow(s, [row[s] EXCEPT !.next = FALSE])
  BY DEF RetryDue, NextComes
<1>3. RowsTyped /\ StoreTyped /\ StoreTyped' /\ ClockTyped'
  BY <1>1, SameClock DEF IInv, Types, StoreTyped
<1>4. RowsTyped' /\ \A t \in Sessions : SameRow(t)
  BY <1>2, <1>3, NextCleared
<1>5. ASSUME NEW t \in Sessions
      PROVE  RowKept(t) /\ StoreKept(t) /\ ClaimKept(t) /\ RowInv(t)'
  <2>1. RowInv(t) /\ SameRow(t) /\ phase[t] <= phase'[t]
    BY <1>1, <1>3, <1>4 DEF IInv, StoreTyped
  <2>2. RowKept(t) /\ StoreKept(t) /\ ClaimKept(t)
    BY <1>1, <2>1 DEF SameRow, RowKept, StoreKept, ClaimKept, Held
  <2>3. RowInv(t)'
    BY <1>1, <2>1 DEF SameRow, RowInv
  <2> QED
    BY <2>2, <2>3
<1> QED
  BY <1>1, <1>3, <1>4, <1>5, NoCallNoPass

\* The moments that are getting older
LEMMA Grown ==
  ASSUME ClockTyped, NEW X, Grows(X), UNCHANGED gap
  PROVE  /\ ClockTyped'
         /\ \A x \in Timed : /\ age'[x] = 0 => age[x] = 0
                             /\ x \notin X => age'[x] = age[x]
                             /\ x \in X /\ age[x] < 2 => age'[x] # 0
<1>1. /\ age \in [Timed -> 0..2] /\ gap \in [Procs -> [Timed -> 0..2]]
      /\ \A p \in Procs, x \in Timed : gap[p][x] <= age[x]
  BY DEF ClockTyped
<1>2. ASSUME NEW x \in Timed
      PROVE  /\ age'[x] \in 0..2 /\ age[x] <= age'[x] /\ (x \notin X => age'[x] = age[x])
             /\ (x \in X /\ age[x] < 2 => age'[x] = age[x] + 1)
  <2>1. age[x] \in 0..2 /\ age'[x] = IF x \in X /\ age[x] < 2 THEN age[x] + 1 ELSE age[x]
    BY <1>1 DEF Grows
  <2> QED
    BY <2>1
<1>3. age' \in [Timed -> 0..2]
  BY <1>2 DEF Grows
<1>4. ASSUME NEW p \in Procs, NEW x \in Timed
      PROVE  gap'[p][x] <= age'[x]
  <2>1. gap[p][x] \in 0..2 /\ gap[p][x] <= age[x] /\ age[x] \in 0..2
    BY <1>1
  <2> QED
    BY <1>2, <2>1
<1>5. \A x \in Timed : (age'[x] = 0 => age[x] = 0) /\ (x \in X /\ age[x] < 2 => age'[x] # 0)
  <2> TAKE x \in Timed
  <2>1. age[x] \in 0..2
    BY <1>1
  <2> QED
    BY <1>2, <2>1
<1> QED
  BY <1>1, <1>2, <1>3, <1>4, <1>5 DEF ClockTyped

\* Time that passes for what is none of the claims that a client's call holds
LEMMA StepAge ==
  ASSUME IInv, NEW X, Grows(X), Pay,
         UNCHANGED <<row, phase, gap, staging, final, copying, asset, filed, call, clean>>,
         \A u \in Users, s \in Sessions : Held(u, s) /\ s \in X => u \in X /\ age[u] < 2
  PROVE  IInv' /\ Kept
<1>1. RowsTyped' /\ StoreTyped /\ StoreTyped' /\ ClockTyped
  BY DEF IInv, Types, StoreTyped, RowsTyped
<1>2. /\ ClockTyped'
      /\ \A x \in Timed : /\ age'[x] = 0 => age[x] = 0
                          /\ x \notin X => age'[x] = age[x]
                          /\ x \in X /\ age[x] < 2 => age'[x] # 0
  BY <1>1, Grown
<1>3. ASSUME NEW s \in Sessions
      PROVE  RowKept(s) /\ StoreKept(s) /\ ClaimKept(s) /\ RowInv(s)'
  <2>1. RowInv(s)
    BY DEF IInv
  <2>2. RowKept(s) /\ StoreKept(s) /\ RowInv(s)'
    BY <1>1, <2>1, SameSession
  <2>3. ASSUME NEW u \in Users, age'[u] = 0
        PROVE  age[u] = 0 /\ (Held(u, s) => Held(u, s)')
    <3>1. u \in Timed /\ s \in Timed
      BY DEF Timed, Procs
    <3>2. age[u] = 0
      BY <1>2, <2>3, <3>1
    <3>3. Held(u, s) => s \notin X
      BY <1>2, <2>3, <3>1
    <3> QED
      BY <1>2, <3>1, <3>2, <3>3 DEF Held
  <2>4. ClaimKept(s)
    BY <2>3 DEF ClaimKept
  <2> QED
    BY <2>2, <2>4
<1> QED
  BY <1>1, <1>2, <1>3, NoCallNoPass

LEMMA StepAgeClaim ==
  ASSUME IInv, NEW s \in Sessions, AgeClaim(s)
  PROVE  IInv' /\ Kept
<1>1. /\ Pay /\ UNCHANGED <<row, phase, gap, staging, final, copying, asset, filed, call, clean>>
      /\ Grows({s}) /\ (row[s].st = "finalizing" => row[s].tok = Gone)
  BY DEF AgeClaim, Pay, NoFault, store
<1>2. Gone \notin Users
  BY Apart DEF Procs
<1>3. \A u \in Users, t \in Sessions : Held(u, t) /\ t \in {s} => u \in {s} /\ age[u] < 2
  BY <1>1, <1>2 DEF Held
<1> QED
  BY <1>1, <1>3, StepAge

LEMMA StepAgeCall ==
  ASSUME IInv, NEW p \in Procs, AgeCall(p)
  PROVE  IInv' /\ Kept
<1> DEFINE X == {p} \cup {s \in Sessions : p \in {row[s].tok, row[s].cc}}
<1>1. /\ Pay /\ UNCHANGED <<row, phase, gap, staging, final, copying, asset, filed, call, clean>>
      /\ Grows(X) /\ age[p] < 2
  BY DEF AgeCall, Pay, NoFault, store
<1>2. None # p /\ \A s \in Sessions : s # p /\ RowInv(s)
  BY Apart DEF IInv
<1>3. ASSUME NEW u \in Users, NEW s \in Sessions, Held(u, s), s \in X
      PROVE  u \in X /\ age[u] < 2
  <2>1. row[s].cc = None /\ row[s].tok = u
    BY <1>2, <1>3 DEF Held, RowInv
  <2>2. p = u
    BY <1>2, <1>3, <2>1
  <2> QED
    BY <1>1, <2>2
<1> HIDE DEF X
<1> QED
  BY <1>1, <1>3, StepAge

LEMMA StepCopyEnds ==
  ASSUME IInv, NEW s \in Sessions, CopyEnds(s)
  PROVE  IInv' /\ Kept
<1>1. /\ Pay /\ UNCHANGED <<row, phase, age, gap, staging, asset, filed, call, clean>> /\ copying[s] # None
      /\ copying' = [copying EXCEPT ![s] = None]
  BY DEF CopyEnds, Pay, NoFault, time
<1>2. RowsTyped' /\ ClockTyped' /\ StoreTyped /\ \A t \in Sessions : RowInv(t)
  BY <1>1, SameClock DEF IInv, Types, RowsTyped
<1>3. PICK v \in Good : copying[s] = v
  BY <1>1, <1>2 DEF StoreTyped, Objects
<1>4. s \in Media => row[s].src # None
  BY <1>1, <1>2 DEF RowInv
<1>5. UNCHANGED final \/ (final[s] = None /\ final' = [final EXCEPT ![s] = v])
  <2>1. CASE final[s] = None
    BY <1>3, <2>1 DEF CopyEnds
  <2>2. CASE final[s] # None
    BY <1>2, <2>2 DEF CopyEnds, StoreTyped
  <2> QED
    BY <2>1, <2>2
<1>6. StoreTyped' /\ \A t \in Sessions : RowKept(t) /\ StoreKept(t) /\ ClaimKept(t) /\ RowInv(t)'
  BY <1>1, <1>2, <1>3, <1>4, <1>5, Copies
<1> QED
  BY <1>1, <1>2, <1>6, NoCallNoPass

LEMMA StepCrash ==
  ASSUME IInv, NEW p \in Procs, Crash(p)
  PROVE  IInv' /\ Kept
<1>1. /\ Pay /\ UNCHANGED <<phase, age, gap, staging, final, copying, asset, filed>> /\ Orphan(p)
      /\ call' = [call EXCEPT ![p] = NoCall]
      /\ clean' = IF p \in Cleaners THEN [clean EXCEPT ![p] = NoPass] ELSE clean
  BY DEF Crash, Pay, Fault, time, store
<1>0. ClockTyped'
  BY <1>1, SameClock
<1>2. CallsTyped /\ PassTyped /\ StoreTyped'
  BY <1>1 DEF IInv, Types, StoreTyped
<1>3. CallsTyped' /\ call'[p].pc \notin CallPcs /\ Others(p)
  BY <1>1, <1>2, CallStops
<1>4. CallInv(p)' /\ ~OnSource(p)'
  BY <1>3, EndsWell DEF OnSource, Working, CallPcs, MediaPcs, ArtifactPcs
<1>5. RowsTyped' /\ \A s \in Sessions : RowKept(s) /\ StoreKept(s) /\ ClaimKept(s) /\ RowInv(s)'
  BY <1>1, <1>4, OrphanKeeps
<1>6. PassTyped' /\ \A k \in Cleaners : clean'[k] = clean[k] \/ PassInv(k)'
  <2>1. CASE p \in Cleaners
    <3>1. PassTyped' /\ clean'[p].pc = "idle" /\ OtherPasses(p)
      BY <1>1, <1>2, <2>1, PassEnds DEF Abort
    <3> QED
      BY <3>1 DEF OtherPasses, PassInv
  <2>2. CASE p \notin Cleaners
    BY <1>1, <1>2, <2>2 DEF PassTyped
  <2> QED
    BY <2>1, <2>2
<1>7. \A q \in Procs : call'[q] = call[q] \/ CallInv(q)'
  BY <1>3, <1>4 DEF Others
<1> QED
  BY <1>0, <1>1, <1>2, <1>3, <1>5, <1>6, <1>7, Together DEF Kept

-----------------------------------------------------------------------------
(* Steps of the cleaners                                                     *)

\* What the pass of a cleaner and its session are
LEMMA PassHere ==
  ASSUME IInv, NEW k \in Cleaners, clean[k].pc # "idle"
  PROVE  /\ PassTyped /\ RowsTyped /\ StoreTyped /\ CallsTyped /\ PassSees(k) /\ PassInv(k)
         /\ (clean[k].pc # "next" =>
               /\ clean[k].cur \in Sessions /\ clean[k].cur \in DOMAIN clean[k].list
               /\ WasDue(clean[k].cur, clean[k].list[clean[k].cur])
               /\ clean[k].list[clean[k].cur] \in Listed)
<1>1. PassTyped /\ RowsTyped /\ StoreTyped /\ CallsTyped /\ PassInv(k)
  BY DEF IInv, Types
<1>2. PassSees(k)
  BY <1>1 DEF PassInv
<1> QED
  BY <1>1, <1>2, PassNow DEF PassSees

\* The rest of a list was due as well.
LEMMA Proceeds ==
  ASSUME IInv, NEW k \in Cleaners, clean[k].pc # "idle", Proceed(k) \/ Abort(k), UNCHANGED phase
  PROVE  PassTyped' /\ OtherPasses(k) /\ PassInv(k)'
<1>1. PassTyped /\ PassSees(k)
  BY PassHere
<1>2. CASE Proceed(k)
  <2>1. /\ PassTyped' /\ OtherPasses(k)
        /\ clean'[k].pc # "idle" =>
             /\ clean'[k].pc = "next"
             /\ \A s \in DOMAIN clean'[k].list : s \in DOMAIN clean[k].list /\ clean'[k].list[s] = clean[k].list[s]
    BY <1>1, <1>2, PassProceeds
  <2>2. PassInv(k)'
    BY <1>1, <2>1 DEF PassInv, PassSees, WasDue
  <2> QED
    BY <2>1, <2>2
<1>3. CASE Abort(k)
  BY <1>1, <1>3, PassEnds DEF PassInv
<1> QED
  BY <1>2, <1>3

LEMMA StepList ==
  ASSUME IInv, NEW k \in Cleaners, List(k)
  PROVE  IInv' /\ Kept
<1> DEFINE S == {x \in Sessions : Due(x)}
           f == [s \in S |-> [src |-> row[s].src, etag |-> row[s].etag, grace |-> phase[s] = 1,
                              after |-> {y \in Sessions : Due(y) /\ y \in ahead[s]}]]
           n == [pc |-> "next", cur |-> None, list |-> f]
<1>1. Pay /\ UNCHANGED <<row, phase, staging, final, copying, asset, filed, call>> /\ ReadsClock(k) /\ k \in Procs /\ k \notin Users
  BY Apart DEF List, Pay, NoFault, store, Procs
<1>2. RowsTyped /\ StoreTyped /\ PassTyped /\ \A s \in Sessions : RowInv(s)
  BY DEF IInv, Types
<1>3. S \in SUBSET Sessions /\ f \in [S -> Listed]
  BY <1>2 DEF RowsTyped, Row, Listed
<1>4. f \in Lists
  BY <1>3, InLists
<1>5. \A s \in S : WasDue(s, f[s])
  <2> TAKE s \in S
  <2>1. phase[s] \in 0..2 /\ RowInv(s) /\ Due(s)
    BY <1>2 DEF StoreTyped
  <2>2. phase[s] > 0
    BY <2>1 DEF Due, RowInv
  <2>3. f[s].grace = (phase[s] = 1)
    OBVIOUS
  <2>4. ~f[s].grace => phase[s] = 2
    <3>1. ~f[s].grace => phase[s] # 1
      BY <2>3
    <3> QED
      BY <2>1, <2>2, <3>1
  <2> QED
    BY <2>1, <2>2, <2>3, <2>4 DEF WasDue, RowInv
<1>6. clean' = [clean EXCEPT ![k] = n]
  BY DEF List
<1>7. DOMAIN f = S
  OBVIOUS
<1> HIDE DEF f
<1>8. n \in Pass /\ n.pc = "next" /\ n.list = f
  BY <1>4 DEF Pass
<1> HIDE DEF n
<1>9. PassTyped' /\ clean'[k] = n /\ OtherPasses(k)
  BY <1>2, <1>6, <1>8, PassSet
<1>10. PassInv(k)'
  BY <1>1, <1>5, <1>7, <1>8, <1>9 DEF PassInv, PassSees, WasDue
<1>11. ClockTyped' /\ \A s \in Sessions : ClaimKept(s)
  BY <1>1, ReadsNow
<1> QED
  BY <1>1, <1>9, <1>10, <1>11, PassBegins

LEMMA StepPick ==
  ASSUME IInv, NEW k \in Cleaners, Pick(k)
  PROVE  IInv' /\ Kept
<1>1. clean[k].pc = "next" /\ Pay /\ UNCHANGED <<row, phase, age, gap, staging, final, copying, asset, filed, call>>
  BY DEF Pick, Pay, NoFault, time, store
<1>2. PICK s \in DOMAIN clean[k].list, x \in {"stat", "claim"} :
        /\ clean' = [clean EXCEPT ![k].cur = s, ![k].pc = x]
        /\ x = "stat" => s \in Media
  BY DEF Pick
<1>3. PassTyped /\ PassSees(k) /\ clean[k] \in Pass /\ s \in Sessions
  BY <1>1, PassHere, PassNow
<1> DEFINE n == [clean[k] EXCEPT !.cur = s, !.pc = x]
<1>4. n \in Pass /\ n.pc = x /\ n.cur = s /\ n.list = clean[k].list
  BY <1>3 DEF Pass
<1>5. clean' = [clean EXCEPT ![k] = n]
  BY <1>2, <1>3 DEF PassTyped
<1> HIDE DEF n
<1>6. PassTyped' /\ clean'[k] = n /\ OtherPasses(k)
  BY <1>3, <1>4, <1>5, PassSet
<1>7. PassInv(k)'
  BY <1>1, <1>2, <1>3, <1>4, <1>6 DEF PassInv, PassSees, WasDue
<1> QED
  BY <1>1, <1>6, <1>7, OnlyPass

\* A step of a cleaner and of the call it makes, which changes no session
LEMMA PassAndCall ==
  ASSUME IInv, NEW k \in Cleaners, PassTyped', OtherPasses(k), PassInv(k)', CallsTyped', Others(k), CallInv(k)', Pay,
         UNCHANGED <<row, phase, age, gap, staging, final, copying, asset, filed>>
  PROVE  IInv' /\ Kept
<1>1. StoreTyped' /\ RowsTyped' /\ ClockTyped'
  BY SameClock DEF IInv, Types, StoreTyped, RowsTyped
<1>2. \A s \in Sessions : RowKept(s) /\ StoreKept(s) /\ ClaimKept(s) /\ RowInv(s)'
  BY SameSession, SameClock DEF IInv, Types
<1>3. Kept
  BY <1>2 DEF Kept
<1>4. \A q \in Procs : call'[q] = call[q] \/ CallInv(q)'
  BY DEF Others
<1>5. \A j \in Cleaners : clean'[j] = clean[j] \/ PassInv(j)'
  BY DEF OtherPasses
<1> QED
  BY <1>1, <1>2, <1>3, <1>4, <1>5, Together

\* The pass goes to another step of the same session.
LEMMA PassMoves ==
  ASSUME IInv, NEW k \in Cleaners, clean[k].pc \notin {"idle", "next"},
         NEW x \in {"recover", "claim", "delete", "reopen"}, To(k, x), x = "recover" => clean[k].cur \in Media, UNCHANGED phase
  PROVE  PassTyped' /\ OtherPasses(k) /\ PassInv(k)' /\ clean'[k].pc = x
<1>1. PassTyped /\ PassSees(k)
  BY PassHere
<1>2. /\ PassTyped' /\ OtherPasses(k)
      /\ clean'[k].pc = x /\ clean'[k].cur = clean[k].cur /\ clean'[k].list = clean[k].list
  BY <1>1, PassGoes
<1>3. PassInv(k)'
  BY <1>1, <1>2 DEF PassInv, PassSees, WasDue
<1> QED
  BY <1>2, <1>3

LEMMA StepCleanStat ==
  ASSUME IInv, NEW k \in Cleaners, CleanStat(k)
  PROVE  IInv' /\ Kept
<1>1. clean[k].pc = "stat" /\ k \in Procs /\ Pay /\ UNCHANGED <<row, phase, age, gap, staging, final, copying, asset, filed>>
  BY DEF CleanStat, Pay, NoFault, time, store, Procs
<1> DEFINE s == clean[k].cur  l == clean[k].list[s]
<1>2. s \in Media /\ l \in Listed /\ WasDue(s, l)
  BY <1>1, PassHere DEF PassSees
<1>3. CASE call' = [call EXCEPT ![k] = Call("find", s, TRUE)] /\ To(k, "recover")
  <2>1. PassTyped' /\ OtherPasses(k) /\ PassInv(k)'
    BY <1>1, <1>2, <1>3, PassMoves
  <2>2. CallsTyped /\ s \in Sessions /\ TRUE \in BOOLEAN
    BY <1>1, <1>2, PassHere DEF Sessions
  <2>3. CallsTyped' /\ Others(k) /\ CallInv(k)'
    BY <1>1, <1>2, <1>3, <2>2, Begins
  <2> QED
    BY <1>1, <2>1, <2>3, PassAndCall
<1>4. CASE To(k, "claim") /\ UNCHANGED call
  <2>1. PassTyped' /\ OtherPasses(k) /\ PassInv(k)'
    BY <1>1, <1>4, PassMoves
  <2> QED
    BY <1>1, <1>4, <2>1, OnlyPass
<1> QED
  BY <1>3, <1>4 DEF CleanStat

LEMMA StepCleanRecovered ==
  ASSUME IInv, NEW k \in Cleaners, CleanRecovered(k)
  PROVE  IInv' /\ Kept
<1>1. /\ clean[k].pc = "recover" /\ k \in Procs /\ Pay
      /\ UNCHANGED <<row, phase, age, gap, staging, final, copying, asset, filed>>
      /\ call' = [call EXCEPT ![k] = NoCall] /\ (Proceed(k) \/ Abort(k))
  BY DEF CleanRecovered, Pay, NoFault, time, store, Procs
<1>2. CallsTyped
  BY DEF IInv, Types
<1>3. CallsTyped' /\ call'[k].pc \notin CallPcs /\ Others(k)
  BY <1>1, <1>2, CallStops
<1>4. CallInv(k)'
  BY <1>1, <1>3, EndsWell
<1>5. PassTyped' /\ OtherPasses(k) /\ PassInv(k)'
  BY <1>1, Proceeds
<1> QED
  BY <1>1, <1>3, <1>4, <1>5, PassAndCall

LEMMA StepClaimExpiration ==
  ASSUME IInv, NEW k \in Cleaners, ClaimExpiration(k)
  PROVE  IInv' /\ Kept
<1>1. /\ clean[k].pc = "claim" /\ Pay /\ k \in Procs
      /\ UNCHANGED <<phase, staging, final, copying, asset, filed, call>>
  BY DEF ClaimExpiration, Pay, NoFault, store, Procs
<1>s. PICK s \in Sessions : clean[k].cur = s
  BY <1>1, PassHere
<1> DEFINE l == clean[k].list[s]
<1>2. RowsTyped /\ StoreTyped /\ row[s] \in Row /\ RowInv(s) /\ WasDue(s, l)
  BY <1>1, <1>s, PassHere DEF IInv, RowsTyped
<1>3. CASE MayExpire(k, s)
  <2> DEFINE c == [row[s] EXCEPT !.st = "expiring", !.cc = k, !.tok = None]
  <2>1. c \in Row /\ c.st = "expiring" /\ c.tok = None /\ c.src = row[s].src /\ c.etag = row[s].etag
    BY <1>2, RowExpiring
  <2>2. SetRow(s, c) /\ TakesClaim(k, s) /\ To(k, "delete")
    BY <1>s, <1>3 DEF ClaimExpiration
  <2> HIDE DEF c
  <2>3. RowsTyped' /\ row'[s] = c /\ \A t \in Sessions : t # s => row'[t] = row[t]
    BY <1>2, <2>1, <2>2, RowSet
  <2>4. row[s].st # "finalized" /\ \A u \in Users : ~Held(u, s)
    BY <1>1, <1>3 DEF MayExpire, Held
  <2>5. RowKept(s)
    BY <2>1, <2>3, <2>4 DEF RowKept
  <2>8. ClockTyped' /\ \A t \in Sessions : ClaimKept(t)
    BY <1>1, <2>2, <2>3, <2>4, ClaimTaken
  <2>6. RowInv(s)'
    BY <1>1, <1>2, <2>1, <2>3, Apart DEF RowInv, WasDue, Procs
  <2>7. PassTyped' /\ OtherPasses(k) /\ PassInv(k)'
    BY <1>1, <2>2, PassMoves
  <2> QED
    BY <1>1, <2>3, <2>5, <2>6, <2>7, <2>8, PassClaims
<1>4. CASE ~MayExpire(k, s)
  <2>1. Proceed(k) /\ UNCHANGED <<row, age, gap>>
    BY <1>s, <1>4 DEF ClaimExpiration
  <2>2. PassTyped' /\ OtherPasses(k) /\ PassInv(k)'
    BY <1>1, <2>1, Proceeds
  <2> QED
    BY <1>1, <2>1, <2>2, OnlyPass
<1> QED
  BY <1>3, <1>4

LEMMA StepCleanDelete ==
  ASSUME IInv, NEW k \in Cleaners, CleanDelete(k)
  PROVE  IInv' /\ Kept
<1>1. clean[k].pc = "delete" /\ UNCHANGED <<row, phase, age, gap, final, copying, asset, filed, call>>
  BY DEF CleanDelete, time
<1>p. Pay
  BY DEF CleanDelete, NoFault, Fault, Pay
<1>s. PICK s \in Sessions : clean[k].cur = s
  BY <1>1, PassHere
<1>2. PassTyped /\ StoreTyped /\ PassSees(k) /\ (\A t \in Sessions : RowInv(t)) /\ RowsTyped' /\ CallsTyped' /\ ClockTyped'
  BY <1>1, PassHere, SameClock DEF IInv, Types, RowsTyped, CallsTyped
<1>3. staging' = [staging EXCEPT ![s] = None] \/ UNCHANGED staging
  BY <1>s DEF CleanDelete
<1>4. StoreTyped' /\ \A t \in Sessions : RowKept(t) /\ StoreKept(t) /\ ClaimKept(t) /\ RowInv(t)'
  BY <1>1, <1>2, <1>3, Empties
<1>5. PassTyped' /\ OtherPasses(k) /\ PassInv(k)'
  <2>1. CASE To(k, "reopen")
    BY <1>1, <2>1, PassMoves
  <2>2. CASE To(k, "finish") /\ staging' = [staging EXCEPT ![s] = None]
    <3>1. /\ PassTyped' /\ OtherPasses(k)
          /\ clean'[k].pc = "finish" /\ clean'[k].cur = clean[k].cur /\ clean'[k].list = clean[k].list
      BY <1>1, <1>2, <2>2, PassGoes
    <3>2. staging'[s] = None
      BY <1>2, <2>2 DEF StoreTyped
    <3>3. PassInv(k)'
      BY <1>1, <1>s, <1>2, <3>1, <3>2 DEF PassInv, PassSees, WasDue
    <3> QED
      BY <3>1, <3>3
  <2> QED
    BY <1>s, <2>1, <2>2 DEF CleanDelete
<1>6. \A q \in Procs : call'[q] = call[q] \/ CallInv(q)'
  BY <1>1
<1>7. \A j \in Cleaners : clean'[j] = clean[j] \/ PassInv(j)'
  BY <1>5 DEF OtherPasses
<1> QED
  BY <1>p, <1>2, <1>4, <1>5, <1>6, <1>7, Together DEF Kept

\* A cleaner that gives its claim back or completes it
LEMMA Unclaims ==
  ASSUME IInv, NEW k \in Cleaners, clean[k].pc # "idle", Proceed(k) \/ Abort(k), Pay,
         UNCHANGED <<phase, age, gap, staging, final, copying, asset, filed, call>>,
         NEW s \in Sessions, row[s].st = "expiring", NEW c \in Row, SetRow(s, c), c.st \in {"pending", "expired"},
         c.tok = row[s].tok, c.cc = None, c.src = row[s].src, c.etag = row[s].etag,
         c.st = "expired" /\ s \in Artifacts => phase[s] = 2 /\ staging[s] = None
  PROVE  IInv' /\ Kept
<1>1. RowsTyped /\ RowInv(s)
  BY PassHere DEF IInv
<1>2. RowsTyped' /\ row'[s] = c /\ \A t \in Sessions : t # s => row'[t] = row[t]
  BY <1>1, RowSet
<1>3. RowKept(s) /\ ClaimKept(s)
  BY <1>2 DEF RowKept, ClaimKept, Held
<1>4. RowInv(s)'
  BY <1>1, <1>2 DEF RowInv
<1>5. PassTyped' /\ OtherPasses(k) /\ PassInv(k)'
  BY Proceeds
<1> QED
  BY <1>2, <1>3, <1>4, <1>5, PassAndRow

\* A pass that goes on, or ends, and writes nothing
LEMMA LeavesIt ==
  ASSUME IInv, NEW k \in Cleaners, clean[k].pc # "idle", Proceed(k) \/ Abort(k), Pay,
         UNCHANGED <<row, phase, age, gap, staging, final, copying, asset, filed, call>>
  PROVE  IInv' /\ Kept
<1>1. PassTyped' /\ OtherPasses(k) /\ PassInv(k)'
  BY Proceeds
<1> QED
  BY <1>1, OnlyPass

\* A pass that ends and leaves its claims
LEMMA LeavesClaims ==
  ASSUME IInv, NEW k \in Cleaners, clean[k].pc # "idle", Abort(k), Pay, Orphan(k),
         UNCHANGED <<phase, age, gap, staging, final, copying, asset, filed, call>>
  PROVE  IInv' /\ Kept
<1>1. PassTyped' /\ OtherPasses(k) /\ PassInv(k)'
  BY Proceeds
<1>2. k \in Procs /\ k \notin Users /\ StoreTyped' /\ CallsTyped' /\ ClockTyped'
  BY Apart, SameClock DEF Procs, IInv, Types, StoreTyped, CallsTyped
<1>3. RowsTyped' /\ \A s \in Sessions : RowKept(s) /\ StoreKept(s) /\ ClaimKept(s) /\ RowInv(s)'
  BY <1>2, OrphanKeeps
<1>4. \A q \in Procs : call'[q] = call[q] \/ CallInv(q)'
  OBVIOUS
<1>5. \A j \in Cleaners : clean'[j] = clean[j] \/ PassInv(j)'
  BY <1>1 DEF OtherPasses
<1> QED
  BY <1>1, <1>2, <1>3, <1>4, <1>5, Together DEF Kept

LEMMA StepReopen ==
  ASSUME IInv, NEW k \in Cleaners, Reopen(k)
  PROVE  IInv' /\ Kept
<1>1. /\ clean[k].pc = "reopen" /\ Abort(k)
      /\ UNCHANGED <<phase, age, gap, staging, final, copying, asset, filed, call>>
  BY DEF Reopen, time, store
<1>p. Pay
  BY DEF Reopen, NoFault, Fault, Pay
<1>s. PICK s \in Sessions : clean[k].cur = s
  BY <1>1, PassHere
<1>2. row[s] \in Row
  BY <1>1, PassHere DEF RowsTyped
<1>3. CASE Expiring(k) /\ SetRow(s, [row[s] EXCEPT !.st = "pending", !.cc = None])
  <2> DEFINE c == [row[s] EXCEPT !.st = "pending", !.cc = None]
  <2>0. "pending" \in {"pending", "expired"} /\ TRUE \in BOOLEAN
    OBVIOUS
  <2>1. c \in Row /\ c.st = "pending" /\ c.tok = row[s].tok /\ c.cc = None /\ c.src = row[s].src /\ c.etag = row[s].etag
    BY <1>2, <2>0, RowUnclaimed
  <2>2. SetRow(s, c) /\ row[s].st = "expiring"
    BY <1>s, <1>3 DEF Expiring
  <2> HIDE DEF c
  <2> QED
    BY <1>1, <1>p, <2>1, <2>2, Unclaims
<1>4. CASE UNCHANGED row
  BY <1>1, <1>p, <1>4, LeavesIt
<1>5. CASE Orphan(k)
  BY <1>1, <1>p, <1>5, LeavesClaims
<1> QED
  BY <1>s, <1>3, <1>4, <1>5 DEF Reopen

LEMMA StepFinish ==
  ASSUME IInv, NEW k \in Cleaners, Finish(k)
  PROVE  IInv' /\ Kept
<1>1. clean[k].pc = "finish" /\ UNCHANGED <<phase, age, gap, staging, final, copying, asset, filed, call>>
  BY DEF Finish, time, store
<1>p. Pay /\ (Proceed(k) \/ Abort(k))
  BY DEF Finish, NoFault, Fault, Pay
<1>s. PICK s \in Sessions : clean[k].cur = s
  BY <1>1, PassHere
<1>2. row[s] \in Row /\ PassSees(k) /\ WasDue(s, clean[k].list[s])
  BY <1>1, <1>s, PassHere DEF RowsTyped
<1> DEFINE b == [row[s] EXCEPT !.cc = None]
<1>3. CASE /\ Expiring(k)
           /\ SetRow(s, IF SweepAgain(k) THEN [b EXCEPT !.st = "pending", !.next = TRUE]
                        ELSE [b EXCEPT !.st = "expired", !.next = FALSE])
  <2>1. row[s].st = "expiring" /\ FALSE \in BOOLEAN /\ TRUE \in BOOLEAN
    BY <1>s, <1>3 DEF Expiring
  <2>2. CASE SweepAgain(k)
    <3> DEFINE c == [b EXCEPT !.st = "pending", !.next = TRUE]
    <3>1. SetRow(s, c)
      BY <1>3, <2>2
    <3>2. c \in Row /\ c.st = "pending" /\ c.tok = row[s].tok /\ c.cc = None /\ c.src = row[s].src /\ c.etag = row[s].etag
      BY <1>2, <2>1, RowUnclaimed
    <3> HIDE DEF c
    <3> QED
      BY <1>1, <1>p, <2>1, <3>1, <3>2, Unclaims
  <2>3. CASE ~SweepAgain(k)
    <3> DEFINE c == [b EXCEPT !.st = "expired", !.next = FALSE]
    <3>1. SetRow(s, c)
      BY <1>3, <2>3
    <3>2. c \in Row /\ c.st = "expired" /\ c.tok = row[s].tok /\ c.cc = None /\ c.src = row[s].src /\ c.etag = row[s].etag
      BY <1>2, <2>1, RowUnclaimed
    <3> HIDE DEF c
    <3>3. s \in Artifacts => phase[s] = 2 /\ staging[s] = None
      BY <1>1, <1>s, <1>2, <2>3 DEF SweepAgain, PassSees, WasDue
    <3> QED
      BY <1>1, <1>p, <2>1, <3>1, <3>2, <3>3, Unclaims
  <2> QED
    BY <2>2, <2>3
<1>4. CASE UNCHANGED row
  BY <1>1, <1>p, <1>4, LeavesIt
<1>5. CASE Abort(k) /\ Orphan(k)
  BY <1>1, <1>p, <1>5, LeavesClaims
<1> QED
  BY <1>s, <1>3, <1>4, <1>5 DEF Finish

LEMMA StepCleanFail ==
  ASSUME IInv, NEW k \in Cleaners, CleanFail(k)
  PROVE  IInv' /\ Kept
<1>1. /\ clean[k].pc # "idle" /\ Abort(k) /\ Pay
      /\ UNCHANGED <<row, phase, age, gap, staging, final, copying, asset, filed, call>>
  BY DEF CleanFail, Pay, Fault, time, store
<1> QED
  BY <1>1, LeavesIt

-----------------------------------------------------------------------------
(* The theorems                                                              *)

LEMMA InitInv ==
  ASSUME Init
  PROVE  IInv
<1>1. Good \subseteq Contents /\ None \notin Good /\ None \notin Users /\ None \notin Contents
  BY Apart DEF Procs
<1>2. "pending" \in Statuses /\ None \in Tokens /\ None \in Seen /\ None \in Objects /\ 0 \in 0..2
  BY DEF Statuses, Tokens, Seen, Objects
<1>3. [st |-> "pending", tok |-> None, src |-> None, etag |-> None, cc |-> None, next |-> FALSE] \in Row
  BY <1>2 DEF Row, Claimers
<1>4. RowsTyped
  BY <1>3 DEF Init, RowsTyped
<1>5. StoreTyped
  BY <1>2 DEF Init, StoreTyped
<1>5a. ClockTyped
  <2>1. age = [x \in Timed |-> 0] /\ gap = [p \in Procs |-> age]
    BY DEF Init
  <2>2. age \in [Timed -> 0..2] /\ \A x \in Timed : age[x] = 0
    BY <2>1
  <2>3. gap \in [Procs -> [Timed -> 0..2]] /\ \A p \in Procs : gap[p] = age
    BY <2>1, <2>2
  <2> QED
    BY <2>2, <2>3 DEF ClockTyped
<1>6. CallsTyped /\ PassTyped
  BY DEF Init, CallsTyped, PassTyped, Resting
<1>7. WithinBudget
  <2>1. budget \in Budgets /\ budget \in UploadBudget
    BY Apart DEF Init
  <2>2. budget.puts \in 0..budget.puts /\ budget.calls \in 0..budget.calls /\ budget.faults \in 0..budget.faults
    BY <2>1 DEF UploadBudget
  <2>3. budget = [budget EXCEPT !.puts = budget.puts, !.calls = budget.calls, !.faults = budget.faults]
    BY <2>1 DEF UploadBudget
  <2> QED
    BY <2>1, <2>2, <2>3, Zenon DEF WithinBudget
<1>8. \A s \in Sessions : RowInv(s)
  BY <1>1 DEF Init, RowInv
<1>9. \A p \in Procs : CallInv(p)
  BY DEF Init, NoCall, CallInv, CallPcs, MediaPcs, ArtifactPcs
<1>10. \A k \in Cleaners : PassInv(k)
  BY DEF Init, NoPass, PassInv
<1> QED
  BY <1>4, <1>5, <1>5a, <1>6, <1>7, <1>8, <1>9, <1>10 DEF IInv, Types

LEMMA NextKeeps ==
  ASSUME IInv, Next
  PROVE  IInv' /\ Kept
<1>1. ASSUME NEW s \in Sessions, Put(s) \/ ExpireArtifact(s) \/ Clock(s)
      PROVE  IInv' /\ Kept
  BY <1>1, StepPut, StepExpire, StepTimer, StepAgeClaim, StepCopyEnds DEF Clock
<1>2. ASSUME NEW p \in Procs, FinalizeStep(p)
      PROVE  IInv' /\ Kept
  BY <1>2, StepFind, StepStatFinal, StepClaim, StepRecover, StepStatStaging, StepRecordPromotionSourceETag,
     StepPromote, StepStatPromoted, StepRecordFinalizationETag, StepPersist, StepDeleteStaging,
     StepRelease, StepManifestStat, StepManifestClaim, StepManifestValidate,
     StepManifestRecord DEF FinalizeStep
<1>3. ASSUME NEW k \in Cleaners, CleanStep(k)
      PROVE  IInv' /\ Kept
  BY <1>3, StepList, StepPick, StepCleanStat, StepCleanRecovered, StepClaimExpiration,
     StepCleanDelete, StepReopen, StepFinish DEF CleanStep
<1> QED
  BY <1>1, <1>2, <1>3, StepUserCall, StepFail, StepAgeCall, StepCrash, StepCleanFail DEF Next

LEMMA StutterInv ==
  ASSUME IInv, UNCHANGED vars
  PROVE  IInv'
<1>1. UNCHANGED <<age, gap>> /\ ClockTyped' /\ StoreTyped' /\ RowsTyped' /\ CallsTyped' /\ PassTyped' /\ Pay
  BY SameClock DEF vars, time, store, IInv, Types, StoreTyped, RowsTyped, CallsTyped, PassTyped, Pay
<1>2. \A s \in Sessions : RowKept(s) /\ StoreKept(s) /\ ClaimKept(s) /\ RowInv(s)'
  BY SameSession, SameClock DEF vars, time, store, IInv, Types
<1>3. \A q \in Procs : call'[q] = call[q] \/ CallInv(q)'
  BY DEF vars
<1>4. \A k \in Cleaners : clean'[k] = clean[k] \/ PassInv(k)'
  BY DEF vars
<1> QED
  BY <1>1, <1>2, <1>3, <1>4, Together DEF Kept

\* The staging object of a session goes with a step of a call that has finished with it, or of a cleaner.
LEMMA StagingGoes ==
  ASSUME IInv, Next, NEW s \in Sessions, staging[s] # None, staging'[s] = None
  PROVE  \/ \E p \in Procs : call[p].pc = "delete" /\ call[p].s = s
         \/ \E k \in Cleaners : clean[k].pc = "delete" /\ clean[k].cur = s
<1>1. StoreTyped /\ budget \in UploadBudget
  BY Spent DEF IInv, Types
<1>2. ASSUME NEW t \in Sessions, Put(t) \/ ExpireArtifact(t) \/ Clock(t)
      PROVE  FALSE
  <2>1. None \notin budget.contents
    BY <1>1, Apart DEF UploadBudget
  <2>2. CASE Put(t)
    BY <1>1, <2>1, <2>2 DEF Put, StoreTyped
  <2>3. CASE ExpireArtifact(t) \/ Clock(t)
    BY <2>3 DEF ExpireArtifact, Clock, Expire, GraceEnds, RetryDue, NextComes, GoesLast, AgeClaim,
       CopyEnds, time, store
  <2> QED
    BY <1>2, <2>2, <2>3
<1>3. ASSUME NEW u \in Users, NEW t \in Sessions, UserCall(u, t)
      PROVE  FALSE
  BY <1>3 DEF UserCall, time, store
<1>4. ASSUME NEW p \in Procs, FinalizeStep(p) \/ Fail(p) \/ AgeCall(p) \/ Crash(p)
      PROVE  call[p].pc = "delete" /\ call[p].s = s
  <2>1. CASE DeleteStaging(p)
    BY <1>1, <2>1 DEF DeleteStaging, StoreTyped
  <2>2. CASE Find(p) \/ StatFinal(p) \/ Claim(p) \/ Recover(p) \/ StatStaging(p) \/ RecordPromotionSourceETag(p)
    BY <2>2 DEF Find, StatFinal, Claim, Recover, StatStaging, RecordPromotionSourceETag, time, store
  <2>3. CASE Promote(p) \/ StatPromoted(p) \/ RecordFinalizationETag(p) \/ Persist(p) \/ Release(p)
    BY <2>3 DEF Promote, StatPromoted, RecordFinalizationETag, Persist, Release, time, store
  <2>4. CASE ManifestStat(p) \/ ManifestClaim(p) \/ ManifestValidate(p) \/ ManifestRecord(p) \/ Fail(p) \/ AgeCall(p) \/ Crash(p)
    BY <2>4 DEF ManifestStat, ManifestClaim, ManifestValidate, ManifestRecord, Fail, AgeCall, Crash, time, store
  <2> QED
    BY <1>4, <2>1, <2>2, <2>3, <2>4 DEF FinalizeStep
<1>5. ASSUME NEW k \in Cleaners, CleanStep(k) \/ CleanFail(k)
      PROVE  clean[k].pc = "delete" /\ clean[k].cur = s
  <2>1. CASE CleanDelete(k)
    BY <1>1, <2>1 DEF CleanDelete, StoreTyped
  <2>2. CASE List(k) \/ Pick(k) \/ CleanStat(k) \/ CleanRecovered(k)
    BY <2>2 DEF List, Pick, CleanStat, CleanRecovered, time, store
  <2>3. CASE ClaimExpiration(k) \/ Reopen(k) \/ Finish(k) \/ CleanFail(k)
    BY <2>3 DEF ClaimExpiration, Reopen, Finish, CleanFail, time, store
  <2> QED
    BY <1>5, <2>1, <2>2, <2>3 DEF CleanStep
<1> QED
  BY <1>2, <1>3, <1>4, <1>5 DEF Next

LEMMA SourceProtected ==
  ASSUME IInv, Next
  PROVE  ClaimProtectsSource
<1> SUFFICES ASSUME NEW u \in Users, age[u] = 0, call[u].pc \in {"staging", "recordS", "promote", "recover"},
                    staging[call[u].s] # None, staging'[call[u].s] = None
             PROVE  \/ call[u].s \in filed
                    \/ \E k \in Cleaners : clean[k].pc = "delete" /\ clean[k].cur = call[u].s /\ ~Expiring(k)
  BY DEF ClaimProtectsSource
<1>1. u \in Procs /\ call[u].pc \in CallPcs /\ OnSource(u)
  BY DEF Procs, CallPcs, MediaPcs, OnSource, Working
<1>s. PICK s \in Sessions : call[u].s = s
  BY <1>1, Now
<1>2. row[s].st = "finalizing"
  BY <1>1, <1>s, Now DEF Held
<1>3. \/ \E p \in Procs : call[p].pc = "delete" /\ call[p].s = s
      \/ \E k \in Cleaners : clean[k].pc = "delete" /\ clean[k].cur = s
  <2>1. staging[s] # None /\ staging'[s] = None
    BY <1>s
  <2> QED
    BY <2>1, StagingGoes
<1>4. ASSUME NEW p \in Procs, call[p].pc = "delete", call[p].s = s
      PROVE  s \in filed
  <2>1. call[p].pc \in CallPcs
    BY <1>4 DEF CallPcs
  <2>2. CallSees(p)
    BY <2>1, Now
  <2> QED
    BY <1>2, <1>4, <2>2 DEF CallSees
<1>5. ASSUME NEW k \in Cleaners, clean[k].cur = s
      PROVE  ~Expiring(k)
  BY <1>2, <1>5 DEF Expiring
<1> QED
  BY <1>s, <1>3, <1>4, <1>5

LEMMA TypesBack ==
  ASSUME IInv
  PROVE  UploadsAreBacked
<1>1. ClockTyped /\ RowsTyped /\ StoreTyped /\ CallsTyped /\ PassTyped /\ WithinBudget
  BY DEF IInv, Types
<1>2. row \in [Sessions -> [st : {"pending", "finalizing", "finalized", "expiring", "expired"},
                           tok : Procs \cup {None, Gone}, src : Contents \cup {None},
                           etag : Contents \cup {None}, cc : Cleaners \cup {None, Gone},
                           next : BOOLEAN]]
  BY <1>1 DEF RowsTyped, Row, Statuses, Tokens, Seen, Claimers
<1>3. /\ phase \in [Sessions -> 0..2] /\ asset \in [Sessions -> Contents \cup {None}] /\ filed \subseteq Artifacts
      /\ {staging, final, copying} \subseteq [Sessions -> Contents \cup {None}]
  BY <1>1, Apart DEF StoreTyped, Objects, Seen
<1>4. \A p \in Procs : call[p].pc \in {"idle", "find", "stat", "claim", "recover", "staging", "recordS", "promote",
       "statF", "recordE", "persist", "delete", "release", "mstat", "mclaim", "mvalid", "record",
       "done", "failed"}
  BY <1>1, CallNow DEF CallPcs, MediaPcs, ArtifactPcs
<1>5. \A k \in Cleaners : clean[k].pc \in {"idle", "next", "stat", "recover", "claim", "delete",
                                          "reopen", "finish"}
  BY <1>1 DEF PassTyped, Pass, NoPass
<1>6. TypeOK
  BY <1>1, <1>2, <1>3, <1>4, <1>5 DEF TypeOK, ClockTyped
<1>7. \A s \in Sessions : RowInv(s)
  BY DEF IInv
<1>8. FinalizedIsBacked
  <2>1. Media \subseteq Sessions /\ filed \subseteq Sessions
    BY <1>1 DEF StoreTyped, Sessions
  <2> QED
    BY <1>1, <1>7, <2>1 DEF FinalizedIsBacked, RowInv, StoreTyped, Objects
<1>9. PromotionIsOnRecord /\ ArtifactStagingSwept
  BY <1>7 DEF PromotionIsOnRecord, ArtifactStagingSwept, RowInv, Sessions
<1> QED
  BY <1>6, <1>8, <1>9 DEF UploadsAreBacked

\* Rows, staging objects, final objects and assets agree in every behaviour (FinalizeUploadSession,
\* FinalizeTaskArtifactManifest, CleanupExpiredUploadSessions), for any sessions, clients and cleaners.
THEOREM UploadsBacked == Spec => []UploadsAreBacked
<1>1. IInv /\ [Next]_vars => IInv'
  BY NextKeeps, StutterInv
<1> QED
  BY InitInv, <1>1, TypesBack, PTL DEF Spec

\* A finalized session and its asset stay, and nobody deletes the source that a client's call
\* works on, but for a cleaner whose own claim has lapsed and once a task file names the final
\* object (ClaimFinalization, ClaimExpiration, expireTaskArtifactUpload).
THEOREM ClaimsRespected == Spec => ClaimsAreRespected
<1> DEFINE Respected == FinalizedStays /\ ClaimProtectsSource
<1>1. IInv /\ [Next]_vars => IInv'
  BY NextKeeps, StutterInv
<1>2. IInv /\ [Next]_vars => [Respected]_vars
  <2> SUFFICES ASSUME IInv, Next
               PROVE  Respected
    OBVIOUS
  <2>1. Kept
    BY NextKeeps
  <2>2. FinalizedStays
    BY <2>1 DEF FinalizedStays, Kept, RowKept, Sessions
  <2> QED
    BY <2>2, SourceProtected
<1> QED
  BY InitInv, <1>1, <1>2, PTL DEF Spec, ClaimsAreRespected
=============================================================================
