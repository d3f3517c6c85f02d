------------------------- MODULE InteractiveSessionsProofs -------------------------
(***************************************************************************)
(* The two halves of an interactive session.                                *)
(*                                                                          *)
(* The Bridge of a workspace, for any number of mode sessions.  First, what *)
(* names a Bridge: the goroutine of a session goes through the start of a   *)
(* Bridge once (StageInv), and a session is closed once (CloseInv).  Then,  *)
(* who will close it: an entry always has sessions, and a closed one among  *)
(* them is about to leave, or to close the Bridge, or came late (OwnInv).   *)
(*                                                                          *)
(* The conversation of a session, for any messages, answers and budgets:    *)
(* a prompt has been given to the agent before its caller learns that it    *)
(* was taken (WayInv), and until session/start is answered the goroutine    *)
(* that starts the session holds no message (SessionInv).                   *)
(***************************************************************************)
EXTENDS WorkspaceRuntime, InteractivePrompts, SequenceTheorems, TLAPS

\* A Bridge that runs is the workspace's, or about to be closed, or about to be looked at.
LiveBridgeIsNamed ==
  \A g \in Sessions : pod[g] = "live" =>
    \/ cur = g
    \/ start[g].pc \in {"attach", "discard"}
    \/ \E s \in Sessions : Closes(s, g)

BridgeIsNamed == WorkspaceTypeOK /\ LiveBridgeIsNamed /\ HeldBridgeIsCurrent /\ BridgeServesOpenModes

\* A session's goroutine goes through the start of a Bridge once.
Before == {"none", "begin", "wait", "create"}
After == {"init", "inited", "opening", "error", "done", "late", "gaveUp"}

StageInv ==
  \A g \in Sessions :
    /\ cur = g => start[g].pc \notin Before
    /\ pod[g] # "none" => start[g].pc \in {"attach", "discard"} \cup After
    /\ shared[g].rt => start[g].pc \in After
    /\ cur = g /\ start[g].pc \in {"start", "attach"} /\ ~modes[g].closed => g \in shared[g].members

\* A session is closed once, and what is to be closed is no longer the workspace's.
CloseInv ==
  \A s \in Sessions :
    /\ closer[s].pc # "no" => modes[s].closed
    /\ modes[s].committing => ~modes[s].closed /\ s \in allowance.committers
    /\ closer[s].pc = "kill" /\ closer[s].kill # NoSession => start[closer[s].kill].pc \notin Before
    /\ closer[s].pc = "kill" /\ s \notin allowance.committers => closer[s].kill # NoSession /\ closer[s].kill # cur

WorkspaceInv == BridgeIsNamed /\ StageInv /\ CloseInv

Left(b, f, e) == [sessions |-> b.sessions, closers |-> b.closers, committers |-> b.committers,
                  failures |-> f, exits |-> e]
LEMMA BudgetIsRecord ==
  \A b \in Allowances : \A f, e : [b EXCEPT !.failures = f, !.exits = e] = Left(b, f, e)
<1> SUFFICES ASSUME NEW b \in Allowances, NEW f, NEW e
             PROVE  [b EXCEPT !.failures = f, !.exits = e] = Left(b, f, e)
    BY Zenon
<1>1. b \in [sessions : SUBSET Sessions, closers : SUBSET Sessions,
             committers : SUBSET Sessions, failures : Nat, exits : Nat]
  BY WorkspaceAssumption
<1> DEFINE c == [b EXCEPT !.failures = f]
<1>2. c = [sessions |-> b.sessions, closers |-> b.closers, committers |-> b.committers,
           failures |-> f, exits |-> b.exits]
  BY <1>1
<1> HIDE DEF c
<1>3. [c EXCEPT !.exits = e] = Left(b, f, e)
  BY <1>2 DEF Left
<1> QED
  BY <1>3, Zenon DEF c

LEMMA Allowance ==
  ASSUME NEW b \in Allowances, NEW x \in 0..b.failures, NEW y \in 0..b.exits
  PROVE  /\ allowance = Left(b, x, y) => WithinAllowance
         /\ allowance' = Left(b, x, y) => WithinAllowance'
<1>1. Left(b, x, y) = [b EXCEPT !.failures = x, !.exits = y]
  BY BudgetIsRecord, Zenon
<1> QED
  BY <1>1, Zenon DEF WithinAllowance

LEMMA Spending ==
  ASSUME WithinAllowance
  PROVE  /\ allowance.failures \in Nat /\ allowance.exits \in Nat
         /\ NoFault => WithinAllowance'
         /\ Refused => WithinAllowance' /\ allowance'.committers = allowance.committers
         /\ allowance.exits > 0 /\ allowance' = [allowance EXCEPT !.exits = @ - 1]
              => WithinAllowance' /\ allowance'.committers = allowance.committers
<1>1. PICK b \in Allowances : \E x \in 0..b.failures, y \in 0..b.exits :
               allowance = [b EXCEPT !.failures = x, !.exits = y]
  BY Zenon DEF WithinAllowance
<1>9. PICK f \in 0..b.failures, e \in 0..b.exits : allowance = [b EXCEPT !.failures = f, !.exits = e]
  BY <1>1, Zenon
<1>0. allowance = Left(b, f, e)
  BY <1>9, BudgetIsRecord, Zenon
<1>2. b.failures \in Nat /\ b.exits \in Nat
  BY WorkspaceAssumption
<1>3. Refused => allowance' = Left(b, f - 1, e) /\ f - 1 \in 0..b.failures
  BY <1>0, <1>2 DEF Refused, Left
<1>4. allowance.exits > 0 /\ allowance' = [allowance EXCEPT !.exits = @ - 1]
        => allowance' = Left(b, f, e - 1) /\ e - 1 \in 0..b.exits
  BY <1>0, <1>2 DEF Left
<1>5. allowance.failures \in Nat /\ allowance.exits \in Nat
  BY <1>0, <1>2 DEF Left
<1>6. NoFault => WithinAllowance'
  BY DEF NoFault, WithinAllowance
<1>7. \A x, y, z : Left(x, y, z).committers = x.committers
  BY DEF Left
<1>8. \A x \in 0..b.failures, y \in 0..b.exits : allowance' = Left(b, x, y) => WithinAllowance'
  BY Allowance
<1> QED
  BY <1>0, <1>3, <1>4, <1>5, <1>6, <1>7, <1>8

LEMMA WorkspaceInitInv == WorkspaceInit => WorkspaceInv
<1> SUFFICES ASSUME WorkspaceInit PROVE WorkspaceInv
    OBVIOUS
<1>0. WithinAllowance
  <2>1. allowance \in Allowances /\ allowance.failures \in Nat /\ allowance.exits \in Nat
    BY WorkspaceAssumption DEF WorkspaceInit
  <2>2. allowance.failures \in 0..allowance.failures /\ allowance.exits \in 0..allowance.exits
    BY <2>1
  <2>3. allowance = Left(allowance, allowance.failures, allowance.exits)
    BY <2>1, WorkspaceAssumption DEF Left
  <2> QED
    BY <2>1, <2>2, <2>3, Allowance, Zenon
<1>1. WorkspaceTypeOK
  BY <1>0, WorkspaceAssumption DEF WorkspaceInit, WorkspaceTypeOK, NoSession
<1>2. LiveBridgeIsNamed /\ HeldBridgeIsCurrent /\ BridgeServesOpenModes
  BY DEF WorkspaceInit, LiveBridgeIsNamed, Closes, HeldBridgeIsCurrent, BridgeServesOpenModes
<1>3. StageInv /\ CloseInv
  BY WorkspaceAssumption DEF WorkspaceInit, StageInv, CloseInv, Before, After, NoSession
<1> QED
  BY <1>1, <1>2, <1>3 DEF WorkspaceInv, BridgeIsNamed

StartPcs == Before \cup {"start", "attach", "fail", "discard"} \cup After
Entry    == [members : SUBSET Sessions, rt : BOOLEAN, ready : BOOLEAN]
Fields   == [closed : BOOLEAN, rt : Sessions \cup {NoSession}, started : BOOLEAN, exitPending : BOOLEAN,
             committing : BOOLEAN]
Closing  == [pc : {"no", "marked", "kill", "done"}, kill : Sessions \cup {NoSession}]
Exit     == [pc : {"none", "emitted", "routing"}, to : SUBSET Sessions]

LEMMA EntryEdits ==
  ASSUME NEW x \in Entry
  PROVE  /\ [x EXCEPT !.ready = TRUE] \in Entry
         /\ [x EXCEPT !.ready = TRUE].rt = x.rt
         /\ [x EXCEPT !.ready = TRUE].members = x.members
         /\ [x EXCEPT !.rt = TRUE, !.ready = TRUE] \in Entry
         /\ [x EXCEPT !.rt = TRUE, !.ready = TRUE].rt = TRUE
         /\ [x EXCEPT !.rt = TRUE, !.ready = TRUE].members = x.members
<1> DEFINE y == [x EXCEPT !.rt = TRUE]
<1>1. y \in Entry /\ y.rt = TRUE
  BY DEF Entry
<1>2. y.members = x.members
  BY DEF Entry
<1>3. \A z \in Entry : [z EXCEPT !.ready = TRUE] \in Entry
  BY DEF Entry
<1>4. \A z \in Entry : [z EXCEPT !.ready = TRUE].rt = z.rt
  BY DEF Entry
<1>5. \A z \in Entry : [z EXCEPT !.ready = TRUE].members = z.members
  BY DEF Entry
<1>6. [x EXCEPT !.rt = TRUE, !.ready = TRUE] = [y EXCEPT !.ready = TRUE]
  BY Zenon
<1> HIDE DEF y
<1> QED
  BY <1>1, <1>2, <1>3, <1>4, <1>5, <1>6

LEMMA FieldEdits ==
  ASSUME NEW x \in Fields
  PROVE  /\ [x EXCEPT !.closed = TRUE, !.rt = NoSession] \in Fields
         /\ [x EXCEPT !.closed = TRUE, !.rt = NoSession].closed = TRUE
         /\ [x EXCEPT !.closed = TRUE, !.rt = NoSession].rt = NoSession
         /\ [x EXCEPT !.closed = TRUE, !.rt = NoSession].committing = x.committing
         /\ [x EXCEPT !.committing = FALSE] \in Fields
         /\ [x EXCEPT !.committing = FALSE].committing = FALSE
         /\ [x EXCEPT !.committing = FALSE].closed = x.closed
         /\ [x EXCEPT !.committing = FALSE].rt = x.rt
<1> DEFINE y == [x EXCEPT !.closed = TRUE]
<1>1. y \in Fields /\ y.closed = TRUE
  BY DEF Fields
<1>2. y.committing = x.committing
  BY DEF Fields
<1>3. \A z \in Fields : [z EXCEPT !.rt = NoSession] \in Fields /\ [z EXCEPT !.rt = NoSession].rt = NoSession
  BY DEF Fields
<1>4. \A z \in Fields : [z EXCEPT !.rt = NoSession].closed = z.closed
  BY DEF Fields
<1>5. \A z \in Fields : [z EXCEPT !.rt = NoSession].committing = z.committing
  BY DEF Fields
<1>6. [x EXCEPT !.closed = TRUE, !.rt = NoSession] = [y EXCEPT !.rt = NoSession]
  BY Zenon
<1> HIDE DEF y
<1>7. [x EXCEPT !.committing = FALSE] \in Fields /\ [x EXCEPT !.committing = FALSE].committing = FALSE
  BY DEF Fields
<1>8. [x EXCEPT !.committing = FALSE].closed = x.closed
  BY DEF Fields
<1>9. [x EXCEPT !.committing = FALSE].rt = x.rt
  BY DEF Fields
<1> QED
  BY <1>1, <1>2, <1>3, <1>4, <1>5, <1>6, <1>7, <1>8, <1>9

LEMMA Types ==
  ASSUME WorkspaceInv
  PROVE  /\ NoSession \notin Sessions /\ cur \in Sessions \cup {NoSession}
         /\ shared \in [Sessions -> Entry] /\ pod \in [Sessions -> {"none", "live", "dead"}]
         /\ exit \in [Sessions -> Exit] /\ modes \in [Sessions -> Fields]
         /\ start \in [Sessions -> [pc : StartPcs, on : Sessions \cup {NoSession}]]
         /\ closer \in [Sessions -> Closing]
BY WorkspaceAssumption
   DEF WorkspaceInv, BridgeIsNamed, WorkspaceTypeOK, NoSession, StartPcs, Before, After,
       Entry, Fields, Closing, Exit

LEMMA TypesAfter ==
  ASSUME cur' \in Sessions \cup {NoSession}, shared' \in [Sessions -> Entry],
         pod' \in [Sessions -> {"none", "live", "dead"}], exit' \in [Sessions -> Exit],
         modes' \in [Sessions -> Fields], start' \in [Sessions -> [pc : StartPcs, on : Sessions \cup {NoSession}]],
         closer' \in [Sessions -> Closing], WithinAllowance'
  PROVE  WorkspaceTypeOK'
BY DEF WorkspaceTypeOK, StartPcs, Before, After, Entry, Fields, Closing, Exit

LEMMA Unspent ==
  ASSUME WorkspaceInv, UNCHANGED allowance
  PROVE  WithinAllowance' /\ allowance'.committers = allowance.committers
BY DEF WorkspaceInv, BridgeIsNamed, WorkspaceTypeOK, WithinAllowance

LEMMA KillTyped ==
  ASSUME WorkspaceInv
  PROVE  \A t \in Sessions : closer[t].kill \in Sessions \cup {NoSession}
<1>1. \A t \in Sessions : closer[t] \in Closing
  BY Types
<1> QED
  BY <1>1 DEF Closing

LEMMA StartMoves ==
  ASSUME WorkspaceInv, NEW s \in Sessions, NEW pc \in StartPcs, NEW g \in Sessions \cup {NoSession}, Goto(s, pc, g)
  PROVE  /\ start' \in [Sessions -> [pc : StartPcs, on : Sessions \cup {NoSession}]]
         /\ start'[s].pc = pc /\ start'[s] = [pc |-> pc, on |-> g]
         /\ \A t \in Sessions : t # s => start'[t] = start[t]
BY Types DEF Goto

\* A goroutine goes on, and nothing else happens.
LEMMA GoesOn ==
  ASSUME WorkspaceInv, NEW s \in Sessions, NEW pc, NEW g \in Sessions \cup {NoSession}, Goto(s, pc, g),
         \/ start[s].pc \in Before /\ pc \in Before \cup {"done", "gaveUp"}
         \/ start[s].pc \in After /\ pc \in After
         \/ start[s].pc = "start" /\ pc = "fail"
         \/ start[s].pc = "attach" /\ pc = "discard",
         WithinAllowance', allowance'.committers = allowance.committers,
         UNCHANGED <<cur, shared, pod, exit, modes, closer>>
  PROVE  WorkspaceInv'
<1>0. pc \in StartPcs
  BY DEF StartPcs, Before, After
<1>1. /\ start' \in [Sessions -> [pc : StartPcs, on : Sessions \cup {NoSession}]]
      /\ start'[s].pc = pc
      /\ \A t \in Sessions : t # s => start'[t] = start[t]
  BY <1>0, StartMoves
<1>2. WorkspaceTypeOK'
  BY <1>1, Types, TypesAfter
<1>3. LiveBridgeIsNamed' /\ HeldBridgeIsCurrent' /\ BridgeServesOpenModes'
  BY <1>1 DEF WorkspaceInv, BridgeIsNamed, StageInv, LiveBridgeIsNamed, Closes,
     HeldBridgeIsCurrent, BridgeServesOpenModes, Before, After
<1>4. StageInv'
  BY <1>1 DEF WorkspaceInv, StageInv, Before, After
<1>5. CloseInv'
  <2>1. \A t \in Sessions : closer[t].kill \in Sessions \cup {NoSession}
    BY KillTyped
  <2> QED
    BY <1>1, <2>1 DEF WorkspaceInv, CloseInv, Before, After
<1> QED
  BY <1>2, <1>3, <1>4, <1>5 DEF WorkspaceInv, BridgeIsNamed

LEMMA CreateInv ==
  ASSUME WorkspaceInv, NEW s \in Sessions, Create(s)
  PROVE  WorkspaceInv'
BY GoesOn, Unspent DEF Create, Before

\* Begin and Woken: the session takes the runtime of the workspace's entry.
LEMMA JoinInv ==
  ASSUME WorkspaceInv, NEW s \in Sessions, start[s].pc \in {"begin", "wait"},
         cur # NoSession, shared[cur].rt, ~modes[s].closed, Join(s, cur),
         UNCHANGED <<cur, pod, exit, closer, allowance>>
  PROVE  WorkspaceInv'
<1>1. cur \in Sessions
  BY Types
<1>2. /\ start' \in [Sessions -> [pc : StartPcs, on : Sessions \cup {NoSession}]]
      /\ start'[s].pc = "init"
      /\ \A t \in Sessions : t # s => start'[t] = start[t]
  BY <1>1, StartMoves DEF Join, StartPcs, After
<1> DEFINE e == [shared[cur] EXCEPT !.members = @ \cup {s}]
           f == [modes[s] EXCEPT !.rt = cur]
<1>3. e \in Entry /\ e.rt = shared[cur].rt /\ e.members = shared[cur].members \cup {s}
  <2>1. shared[cur] \in Entry
    BY <1>1, Types
  <2> QED
    BY <2>1 DEF Entry
<1>4. f \in Fields /\ f.rt = cur /\ f.closed = modes[s].closed /\ f.committing = modes[s].committing
  <2>1. modes[s] \in Fields
    BY Types
  <2> QED
    BY <1>1, <2>1 DEF Fields
<1>5. shared' = [shared EXCEPT ![cur] = e] /\ modes' = [modes EXCEPT ![s] = f]
  BY DEF Join
<1> HIDE DEF e, f
<1>11. WorkspaceTypeOK'
  BY <1>1, <1>2, <1>3, <1>4, <1>5, Unspent, Types, TypesAfter
<1>12. /\ \A g \in Sessions : shared'[g].rt = shared[g].rt /\ shared[g].members \subseteq shared'[g].members
       /\ s \in shared'[cur].members
       /\ \A t \in Sessions : t # s => modes'[t] = modes[t]
       /\ modes'[s].rt = cur /\ modes'[s].closed = modes[s].closed /\ modes'[s].committing = modes[s].committing
  BY <1>1, <1>3, <1>4, <1>5, Types
<1>6. LiveBridgeIsNamed'
  BY <1>2 DEF WorkspaceInv, BridgeIsNamed, LiveBridgeIsNamed, Closes
<1>7. HeldBridgeIsCurrent'
  BY <1>1, <1>12 DEF WorkspaceInv, BridgeIsNamed, HeldBridgeIsCurrent
<1>8. BridgeServesOpenModes'
  BY <1>12 DEF WorkspaceInv, BridgeIsNamed, BridgeServesOpenModes, CloseInv
<1>9. StageInv'
  BY <1>2, <1>12 DEF WorkspaceInv, StageInv, Before, After
<1>10. CloseInv'
  <2>1. \A t \in Sessions : closer[t].kill \in Sessions \cup {NoSession}
    BY KillTyped
  <2> QED
    BY <1>2, <1>12, <2>1 DEF WorkspaceInv, CloseInv, Before, After
<1> QED
  BY <1>11, <1>6, <1>7, <1>8, <1>9, <1>10 DEF WorkspaceInv, BridgeIsNamed

LEMMA BeginInv ==
  ASSUME WorkspaceInv, NEW s \in Sessions, Begin(s)
  PROVE  WorkspaceInv'
<1>1. WithinAllowance' /\ allowance'.committers = allowance.committers /\ cur \in Sessions \cup {NoSession}
  BY Unspent, Types DEF Begin
<1>2. CASE Goto(s, "create", NoSession) /\ UNCHANGED <<shared, modes>>
  BY <1>1, <1>2, GoesOn DEF Begin, Before
<1>3. CASE Goto(s, "wait", cur) /\ UNCHANGED <<shared, modes>>
  BY <1>1, <1>3, GoesOn DEF Begin, Before
<1>4. CASE Goto(s, "done", NoSession) /\ UNCHANGED <<shared, modes>>
  BY <1>1, <1>4, GoesOn DEF Begin, Before
<1>5. CASE cur # NoSession /\ shared[cur].rt /\ ~modes[s].closed /\ Join(s, cur)
  BY <1>5, JoinInv DEF Begin
<1> QED
  BY <1>2, <1>3, <1>4, <1>5 DEF Begin

LEMMA WokenInv ==
  ASSUME WorkspaceInv, NEW s \in Sessions, Woken(s)
  PROVE  WorkspaceInv'
<1>1. /\ WithinAllowance' /\ allowance'.committers = allowance.committers /\ cur \in Sessions \cup {NoSession}
      /\ start[s].pc = "wait" /\ UNCHANGED <<cur, pod, exit, closer, allowance>>
  BY Unspent, Types DEF Woken
<1>2. CASE Goto(s, "begin", NoSession) /\ UNCHANGED <<shared, modes>>
  BY <1>1, <1>2, GoesOn DEF Before
<1>3. CASE Goto(s, "gaveUp", NoSession) /\ UNCHANGED <<shared, modes>>
  BY <1>1, <1>3, GoesOn DEF Before
<1>4. CASE /\ cur # NoSession /\ shared[cur].rt /\ modes[s].closed /\ Goto(s, "late", cur)
           /\ shared' = [shared EXCEPT ![cur].members = @ \cup {s}] /\ UNCHANGED modes
  <2>1. /\ start' \in [Sessions -> [pc : StartPcs, on : Sessions \cup {NoSession}]]
        /\ start'[s].pc = "late"
        /\ \A t \in Sessions : t # s => start'[t] = start[t]
    BY <1>1, <1>4, StartMoves DEF StartPcs, After
  <2> DEFINE e == [shared[cur] EXCEPT !.members = @ \cup {s}]
  <2>2. e \in Entry /\ e.rt = shared[cur].rt /\ shared[cur].members \subseteq e.members
    <3>1. shared[cur] \in Entry
      BY <1>4, Types
    <3> QED
      BY <3>1 DEF Entry
  <2>3. shared' = [shared EXCEPT ![cur] = e]
    BY <1>4
  <2> HIDE DEF e
  <2>4. WorkspaceTypeOK'
    BY <1>1, <1>4, <2>1, <2>2, <2>3, Types, TypesAfter
  <2>5. \A g \in Sessions : shared'[g].rt = shared[g].rt /\ shared[g].members \subseteq shared'[g].members
    BY <2>2, <2>3, Types
  <2>6. LiveBridgeIsNamed' /\ HeldBridgeIsCurrent' /\ BridgeServesOpenModes'
    <3>1. LiveBridgeIsNamed'
      BY <1>1, <1>4, <2>1, <2>5, Types DEF WorkspaceInv, BridgeIsNamed, LiveBridgeIsNamed, Closes
    <3>2. HeldBridgeIsCurrent'
      BY <1>1, <1>4, <2>1, <2>5, Types DEF WorkspaceInv, BridgeIsNamed, HeldBridgeIsCurrent
    <3>3. BridgeServesOpenModes'
      BY <1>1, <1>4, <2>1, <2>5, Types DEF WorkspaceInv, BridgeIsNamed, BridgeServesOpenModes
    <3> QED
      BY <3>1, <3>2, <3>3
  <2>7. StageInv'
    BY <1>1, <1>4, <2>1, <2>5 DEF WorkspaceInv, StageInv, Before, After
  <2>8. CloseInv'
    <3>1. \A t \in Sessions : closer[t].kill \in Sessions \cup {NoSession}
      BY KillTyped
    <3> QED
      BY <1>1, <1>4, <2>1, <3>1 DEF WorkspaceInv, CloseInv, Before
  <2> QED
    BY <2>4, <2>6, <2>7, <2>8 DEF WorkspaceInv, BridgeIsNamed
<1>5. CASE cur # NoSession /\ shared[cur].rt /\ ~modes[s].closed /\ Join(s, cur)
  BY <1>1, <1>5, JoinInv
<1> QED
  BY <1>2, <1>3, <1>4, <1>5 DEF Woken

LEMMA NewEntryInv ==
  ASSUME WorkspaceInv, NEW s \in Sessions, NewEntry(s)
  PROVE  WorkspaceInv'
<1>1. /\ WithinAllowance' /\ allowance'.committers = allowance.committers
      /\ start[s].pc = "create" /\ UNCHANGED <<pod, exit, modes, closer, allowance>>
  BY Unspent DEF NewEntry
<1>2. CASE Goto(s, "begin", NoSession) /\ UNCHANGED <<cur, shared>>
  BY <1>1, <1>2, GoesOn DEF Before
<1>3. CASE /\ cur = NoSession /\ cur' = s /\ Goto(s, "start", s)
           /\ shared' = [shared EXCEPT ![s].members = {s}]
  <2>1. /\ start' \in [Sessions -> [pc : StartPcs, on : Sessions \cup {NoSession}]]
        /\ start'[s].pc = "start"
        /\ \A t \in Sessions : t # s => start'[t] = start[t]
    BY <1>3, StartMoves DEF StartPcs
  <2> DEFINE e == [shared[s] EXCEPT !.members = {s}]
  <2>2. e \in Entry /\ e.rt = shared[s].rt /\ e.members = {s}
    <3>1. shared[s] \in Entry
      BY Types
    <3> QED
      BY <3>1 DEF Entry
  <2>3. shared' = [shared EXCEPT ![s] = e]
    BY <1>3
  <2> HIDE DEF e
  <2>4. WorkspaceTypeOK'
    BY <1>1, <1>3, <2>1, <2>2, <2>3, Types, TypesAfter
  <2>5. (\A g \in Sessions : shared'[g].rt = shared[g].rt) /\ s \in shared'[s].members
    BY <2>2, <2>3, Types
  <2>6. LiveBridgeIsNamed'
    BY <1>1, <1>3, <2>1, Types DEF WorkspaceInv, BridgeIsNamed, LiveBridgeIsNamed, Closes
  <2>9. HeldBridgeIsCurrent' /\ BridgeServesOpenModes'
    BY <1>1, <1>3 DEF WorkspaceInv, BridgeIsNamed, HeldBridgeIsCurrent,
       BridgeServesOpenModes
  <2>7. StageInv'
    BY <1>1, <1>3, <2>1, <2>5 DEF WorkspaceInv, StageInv, Before, After
  <2>8. CloseInv'
    <3>1. \A t \in Sessions : closer[t].kill \in Sessions \cup {NoSession}
      BY KillTyped
    <3> QED
      BY <1>1, <1>3, <2>1, <3>1 DEF WorkspaceInv, CloseInv, Before
  <2> QED
    BY <2>4, <2>6, <2>9, <2>7, <2>8 DEF WorkspaceInv, BridgeIsNamed
<1> QED
  BY <1>2, <1>3 DEF NewEntry

LEMMA StartReturnsInv ==
  ASSUME WorkspaceInv, NEW s \in Sessions, StartReturns(s)
  PROVE  WorkspaceInv'
<1>1. /\ WithinAllowance' /\ allowance'.committers = allowance.committers
      /\ start[s].pc = "start" /\ UNCHANGED <<cur, shared, exit, modes, closer>>
  BY Unspent, Spending DEF StartReturns, NoFault, WorkspaceInv, BridgeIsNamed,
     WorkspaceTypeOK
<1>2. CASE Goto(s, "fail", s) /\ UNCHANGED pod
  BY <1>1, <1>2, GoesOn
<1>3. CASE Goto(s, "attach", s) /\ pod' = [pod EXCEPT ![s] = "live"]
  <2>1. /\ start' \in [Sessions -> [pc : StartPcs, on : Sessions \cup {NoSession}]]
        /\ start'[s].pc = "attach"
        /\ \A t \in Sessions : t # s => start'[t] = start[t]
    BY <1>3, StartMoves DEF StartPcs
  <2>2. pod' \in [Sessions -> {"none", "live", "dead"}] /\ \A g \in Sessions : g # s => pod'[g] = pod[g]
    BY <1>3, Types
  <2>3. WorkspaceTypeOK'
    BY <1>1, <2>1, <2>2, Types, TypesAfter
  <2>4. LiveBridgeIsNamed' /\ HeldBridgeIsCurrent' /\ BridgeServesOpenModes'
    BY <1>1, <2>1, <2>2
       DEF WorkspaceInv, BridgeIsNamed, LiveBridgeIsNamed, Closes, HeldBridgeIsCurrent,
           BridgeServesOpenModes
  <2>5. StageInv'
    BY <1>1, <2>1, <2>2 DEF WorkspaceInv, StageInv, Before, After
  <2>6. CloseInv'
    <3>1. \A t \in Sessions : closer[t].kill \in Sessions \cup {NoSession}
      BY KillTyped
    <3> QED
      BY <1>1, <2>1, <3>1 DEF WorkspaceInv, CloseInv, Before
  <2> QED
    BY <2>3, <2>4, <2>5, <2>6 DEF WorkspaceInv, BridgeIsNamed
<1> QED
  BY <1>2, <1>3 DEF StartReturns

LEMMA StartFailedInv ==
  ASSUME WorkspaceInv, NEW s \in Sessions, StartFailed(s)
  PROVE  WorkspaceInv'
<1>1. /\ WithinAllowance' /\ allowance'.committers = allowance.committers
      /\ start[s].pc = "fail" /\ Goto(s, "error", s) /\ UNCHANGED <<pod, exit, modes, closer, allowance>>
  BY Unspent DEF StartFailed
<1>2. /\ start' \in [Sessions -> [pc : StartPcs, on : Sessions \cup {NoSession}]]
      /\ start'[s].pc = "error"
      /\ \A t \in Sessions : t # s => start'[t] = start[t]
  BY <1>1, StartMoves DEF StartPcs, After
<1> DEFINE e == [shared[s] EXCEPT !.ready = TRUE]
<1>3. e \in Entry /\ e.rt = shared[s].rt /\ e.members = shared[s].members
  BY Types, EntryEdits
<1>4. \/ cur = s /\ cur' = NoSession /\ shared' = [shared EXCEPT ![s] = e]
      \/ cur # s /\ UNCHANGED <<cur, shared>>
  BY DEF StartFailed
<1> HIDE DEF e
<1>5. WorkspaceTypeOK'
  BY <1>1, <1>2, <1>3, <1>4, Types, TypesAfter
<1>6. /\ cur' = cur \/ (cur = s /\ cur' = NoSession)
      /\ \A g \in Sessions : shared'[g].rt = shared[g].rt /\ shared'[g].members = shared[g].members
  BY <1>3, <1>4, Types
<1>7. pod[s] = "none" /\ ~shared[s].rt
  BY <1>1 DEF WorkspaceInv, StageInv, After
<1>8. LiveBridgeIsNamed'
  BY <1>1, <1>2, <1>6, <1>7 DEF WorkspaceInv, BridgeIsNamed, LiveBridgeIsNamed, Closes
<1>9. HeldBridgeIsCurrent'
  BY <1>1, <1>6, <1>7, Types DEF WorkspaceInv, BridgeIsNamed, HeldBridgeIsCurrent
<1>12. BridgeServesOpenModes'
  BY <1>1 DEF WorkspaceInv, BridgeIsNamed, BridgeServesOpenModes
<1>10. StageInv'
  BY <1>1, <1>2, <1>6, <1>7, Types DEF WorkspaceInv, StageInv, Before, After
<1>11. CloseInv'
  <2>1. \A t \in Sessions : closer[t].kill \in Sessions \cup {NoSession}
    BY KillTyped
  <2> QED
    BY <1>1, <1>2, <1>6, <2>1 DEF WorkspaceInv, CloseInv, Before
<1> QED
  BY <1>5, <1>8, <1>9, <1>10, <1>11, <1>12 DEF WorkspaceInv, BridgeIsNamed

LEMMA AttachInv ==
  ASSUME WorkspaceInv, NEW s \in Sessions, Attach(s)
  PROVE  WorkspaceInv'
<1>1. /\ WithinAllowance' /\ allowance'.committers = allowance.committers
      /\ start[s].pc = "attach" /\ UNCHANGED <<cur, pod, exit, closer, allowance>>
  BY Unspent DEF Attach
<1>2. CASE Goto(s, "discard", s) /\ UNCHANGED <<shared, modes>>
  BY <1>1, <1>2, GoesOn
<1>3. CASE ~(cur # s \/ modes[s].closed)
  <2>1. Goto(s, "init", s) /\ cur = s /\ ~modes[s].closed
    BY <1>3 DEF Attach
  <2>2. /\ start' \in [Sessions -> [pc : StartPcs, on : Sessions \cup {NoSession}]]
        /\ start'[s].pc = "init"
        /\ \A t \in Sessions : t # s => start'[t] = start[t]
    BY <2>1, StartMoves DEF StartPcs, After
  <2> DEFINE e == [shared[s] EXCEPT !.rt = TRUE, !.ready = TRUE]
             f == [modes[s] EXCEPT !.rt = s]
  <2>3. e \in Entry /\ e.rt = TRUE /\ e.members = shared[s].members
    BY Types, EntryEdits
  <2>4. f \in Fields /\ f.rt = s /\ f.closed = modes[s].closed /\ f.committing = modes[s].committing
    <3>1. modes[s] \in Fields
      BY Types
    <3> QED
      BY <3>1 DEF Fields
  <2>5. shared' = [shared EXCEPT ![s] = e] /\ modes' = [modes EXCEPT ![s] = f]
    BY <1>3 DEF Attach
  <2> HIDE DEF e, f
  <2>6. WorkspaceTypeOK'
    BY <1>1, <2>2, <2>3, <2>4, <2>5, Types, TypesAfter
  <2>7. /\ \A g \in Sessions : g # s => shared'[g] = shared[g]
        /\ shared'[s].rt /\ shared'[s].members = shared[s].members
        /\ \A t \in Sessions : t # s => modes'[t] = modes[t]
        /\ modes'[s].rt = s /\ ~modes'[s].closed /\ modes'[s].committing = modes[s].committing
    BY <2>1, <2>3, <2>4, <2>5, Types
  <2>8. s \in shared[s].members
    BY <1>1, <2>1 DEF WorkspaceInv, StageInv
  <2>9. LiveBridgeIsNamed'
    BY <1>1, <2>1, <2>2 DEF WorkspaceInv, BridgeIsNamed, LiveBridgeIsNamed, Closes
  <2>10. HeldBridgeIsCurrent'
    BY <1>1, <2>1, <2>7, <2>8, Types DEF WorkspaceInv, BridgeIsNamed, HeldBridgeIsCurrent
  <2>11. BridgeServesOpenModes'
    BY <1>1, <2>1, <2>7 DEF WorkspaceInv, BridgeIsNamed, BridgeServesOpenModes, CloseInv
  <2>12. StageInv'
    BY <1>1, <2>1, <2>2, <2>7 DEF WorkspaceInv, StageInv, Before, After
  <2>13. CloseInv'
    <3>1. \A t \in Sessions : closer[t].kill \in Sessions \cup {NoSession}
      BY KillTyped
    <3> QED
      BY <1>1, <2>1, <2>2, <2>7, <3>1 DEF WorkspaceInv, CloseInv, Before
  <2> QED
    BY <2>6, <2>9, <2>10, <2>11, <2>12, <2>13 DEF WorkspaceInv, BridgeIsNamed
<1> QED
  BY <1>2, <1>3 DEF Attach

\* What Down does: the Bridge, if it runs, is dead, and nothing else is said about others.
LEMMA DownEffect ==
  ASSUME WorkspaceInv, NEW g \in Sessions \cup {NoSession}, Down(g)
  PROVE  /\ pod' \in [Sessions -> {"none", "live", "dead"}] /\ exit' \in [Sessions -> Exit]
         /\ \A h \in Sessions : h # g => pod'[h] = pod[h]
         /\ g \in Sessions => pod'[g] # "live" /\ (pod'[g] = "none" <=> pod[g] = "none")
<1>1. CASE g = NoSession
  BY <1>1, Types DEF Down
<1>2. CASE g \in Sessions
  <2> DEFINE x == [exit[g] EXCEPT !.pc = "emitted"]
  <2>1. x \in Exit
    BY <1>2, Types DEF Exit
  <2>2. \/ pod[g] = "live" /\ pod' = [pod EXCEPT ![g] = "dead"] /\ exit' = [exit EXCEPT ![g] = x]
        \/ pod[g] # "live" /\ UNCHANGED <<pod, exit>>
    BY DEF Down
  <2> HIDE DEF x
  <2> QED
    BY <1>2, <2>1, <2>2, Types
<1> QED
  BY <1>1, <1>2

\* A Bridge goes down, whoever takes it down.
LEMMA GoesDown ==
  ASSUME WorkspaceInv, NEW g \in Sessions \cup {NoSession}, Down(g), WithinAllowance', allowance'.committers = allowance.committers,
         UNCHANGED <<cur, shared, modes>>,
         \/ g \in Sessions /\ start[g].pc = "discard" /\ Goto(g, "done", g) /\ UNCHANGED closer
         \/ UNCHANGED <<start, closer>>
         \/ /\ UNCHANGED start
            /\ \E s \in Sessions : closer[s].kill = g /\ closer[s].pc = "kill" /\ closer' = [closer EXCEPT ![s].pc = "done"]
  PROVE  WorkspaceInv'
<1>1. /\ pod' \in [Sessions -> {"none", "live", "dead"}] /\ exit' \in [Sessions -> Exit]
      /\ \A h \in Sessions : h # g => pod'[h] = pod[h]
      /\ g \in Sessions => pod'[g] # "live" /\ (pod'[g] = "none" <=> pod[g] = "none")
  BY DownEffect
<1>2. /\ start' \in [Sessions -> [pc : StartPcs, on : Sessions \cup {NoSession}]]
      /\ \A t \in Sessions : start'[t] # start[t] => t = g /\ start[t].pc = "discard" /\ start'[t].pc = "done"
  <2>1. CASE UNCHANGED start
    BY <2>1, Types
  <2>2. CASE g \in Sessions /\ start[g].pc = "discard" /\ Goto(g, "done", g)
    BY <2>2, StartMoves DEF StartPcs, After
  <2> QED
    BY <2>1, <2>2
<1>3. /\ closer' \in [Sessions -> Closing]
      /\ \A t \in Sessions : closer'[t] # closer[t] => closer'[t].pc = "done" /\ closer[t].pc = "kill" /\ closer[t].kill = g
  <2>1. CASE UNCHANGED closer
    BY <2>1, Types
  <2>2. CASE \E s \in Sessions : /\ closer[s].kill = g /\ closer[s].pc = "kill"
                                 /\ closer' = [closer EXCEPT ![s].pc = "done"]
    <3>1. PICK s \in Sessions : /\ closer[s].kill = g /\ closer[s].pc = "kill"
                                /\ closer' = [closer EXCEPT ![s].pc = "done"]
      BY <2>2
    <3> DEFINE c == [closer[s] EXCEPT !.pc = "done"]
    <3>2. c \in Closing /\ c.pc = "done"
      <4>1. closer[s] \in Closing
        BY Types
      <4> QED
        BY <4>1 DEF Closing
    <3>3. closer' = [closer EXCEPT ![s] = c]
      BY <3>1
    <3> HIDE DEF c
    <3> QED
      BY <3>1, <3>2, <3>3, Types
  <2> QED
    BY <2>1, <2>2
<1>4. WorkspaceTypeOK'
  BY <1>1, <1>2, <1>3, Types, TypesAfter
<1>5. LiveBridgeIsNamed'
  BY <1>1, <1>2, <1>3 DEF WorkspaceInv, BridgeIsNamed, LiveBridgeIsNamed, Closes
<1>6. HeldBridgeIsCurrent'
  BY DEF WorkspaceInv, BridgeIsNamed, HeldBridgeIsCurrent
<1>7. BridgeServesOpenModes'
  BY <1>3 DEF WorkspaceInv, BridgeIsNamed, BridgeServesOpenModes
<1>8. StageInv'
  BY <1>1, <1>2 DEF WorkspaceInv, StageInv, Before, After
<1>9. CloseInv'
  <2>1. \A t \in Sessions : closer[t].kill \in Sessions \cup {NoSession}
    BY KillTyped
  <2> QED
    BY <1>2, <1>3, <2>1 DEF WorkspaceInv, CloseInv, Before
<1> QED
  BY <1>4, <1>5, <1>6, <1>7, <1>8, <1>9 DEF WorkspaceInv, BridgeIsNamed

LEMMA DownInv ==
  ASSUME WorkspaceInv, NEW s \in Sessions, Discard(s) \/ Kill(s) \/ PodExits(s)
  PROVE  WorkspaceInv'
<1>1. CASE Discard(s)
  BY <1>1, GoesDown, Unspent DEF Discard
<1>2. CASE Kill(s)
  <2>1. closer[s].kill \in Sessions \cup {NoSession} /\ Down(closer[s].kill) /\ closer[s].pc = "kill"
        /\ closer' = [closer EXCEPT ![s].pc = "done"] /\ UNCHANGED <<cur, shared, modes, start, allowance>>
    BY <1>2, Types DEF Kill, Closing
  <2> QED
    BY <2>1, GoesDown, Unspent
<1>3. CASE PodExits(s)
  BY <1>3, GoesDown, Spending DEF PodExits, WorkspaceInv, BridgeIsNamed, WorkspaceTypeOK
<1> QED
  BY <1>1, <1>2, <1>3

\* session/start, and the first message
LEMMA SessionStartInv ==
  ASSUME WorkspaceInv, NEW s \in Sessions, SessionStart(s) \/ Opening(s)
  PROVE  WorkspaceInv'
<1>1. WithinAllowance' /\ allowance'.committers = allowance.committers /\ start[s].on \in Sessions \cup {NoSession}
  <2>1. NoFault \/ Refused
    BY DEF SessionStart, Opening
  <2> QED
    BY <2>1, Unspent, Spending, Types DEF NoFault, WorkspaceInv, BridgeIsNamed,
       WorkspaceTypeOK
<1>2. start[s].pc \in After /\ UNCHANGED <<cur, shared, pod, exit, modes, closer>>
  BY DEF SessionStart, Opening, After
<1>3. \/ Goto(s, "inited", start[s].on)
      \/ Goto(s, "error", start[s].on)
      \/ Goto(s, "done", NoSession)
  BY DEF SessionStart, Opening
<1> QED
  BY <1>1, <1>2, <1>3, GoesOn DEF After

LEMMA StartedInv ==
  ASSUME WorkspaceInv, NEW s \in Sessions, Started(s)
  PROVE  WorkspaceInv'
<1>1. /\ WithinAllowance' /\ allowance'.committers = allowance.committers /\ start[s].on \in Sessions \cup {NoSession}
      /\ start[s].pc = "inited" /\ UNCHANGED <<cur, shared, pod, exit, closer, allowance>>
  BY Unspent, Types DEF Started
<1>2. CASE Goto(s, "done", NoSession) /\ UNCHANGED modes
  BY <1>1, <1>2, GoesOn DEF After
<1>3. CASE modes' = [modes EXCEPT ![s].started = TRUE] /\ Goto(s, "opening", start[s].on)
  <2>1. /\ start' \in [Sessions -> [pc : StartPcs, on : Sessions \cup {NoSession}]]
        /\ start'[s].pc = "opening"
        /\ \A t \in Sessions : t # s => start'[t] = start[t]
    BY <1>1, <1>3, StartMoves DEF StartPcs, After
  <2> DEFINE f == [modes[s] EXCEPT !.started = TRUE]
  <2>2. f \in Fields
    <3>1. modes[s] \in Fields
      BY Types
    <3> QED
      BY <3>1 DEF Fields
  <2>3. f.rt = modes[s].rt
    <3>1. modes[s] \in Fields
      BY Types
    <3> QED
      BY <3>1 DEF Fields
  <2>4. f.closed = modes[s].closed /\ f.committing = modes[s].committing
    <3>1. modes[s] \in Fields
      BY Types
    <3> QED
      BY <3>1 DEF Fields
  <2>5. modes' = [modes EXCEPT ![s] = f]
    BY <1>3
  <2> HIDE DEF f
  <2>6. WorkspaceTypeOK'
    BY <1>1, <2>1, <2>2, <2>5, Types, TypesAfter
  <2>7. \A t \in Sessions : /\ modes'[t].rt = modes[t].rt /\ modes'[t].closed = modes[t].closed
                            /\ modes'[t].committing = modes[t].committing
    BY <2>3, <2>4, <2>5, Types
  <2>8. LiveBridgeIsNamed'
    BY <1>1, <2>1 DEF WorkspaceInv, BridgeIsNamed, LiveBridgeIsNamed, Closes
  <2>9. HeldBridgeIsCurrent' /\ BridgeServesOpenModes'
    BY <1>1, <2>7 DEF WorkspaceInv, BridgeIsNamed, HeldBridgeIsCurrent,
       BridgeServesOpenModes
  <2>10. StageInv'
    BY <1>1, <2>1, <2>7 DEF WorkspaceInv, StageInv, Before, After
  <2>11. CloseInv'
    <3>1. \A t \in Sessions : closer[t].kill \in Sessions \cup {NoSession}
      BY KillTyped
    <3> QED
      BY <1>1, <2>1, <2>7, <3>1 DEF WorkspaceInv, CloseInv, Before
  <2> QED
    BY <2>6, <2>8, <2>9, <2>10, <2>11 DEF WorkspaceInv, BridgeIsNamed
<1> QED
  BY <1>2, <1>3 DEF Started

\* What a close that is not a commit leaves of the session's lock section
LEMMA MarkEffect ==
  ASSUME WorkspaceInv, NEW s \in Sessions, Mark(s)
  PROVE  /\ modes' \in [Sessions -> Fields] /\ closer' \in [Sessions -> Closing]
         /\ \A t \in Sessions : t # s => modes'[t] = modes[t] /\ closer'[t] = closer[t]
         /\ modes'[s].closed /\ modes'[s].rt = NoSession /\ modes'[s].committing = modes[s].committing
         /\ \/ closer'[s] = closer[s]
            \/ closer[s].pc = "no" /\ closer'[s].pc = "marked"
<1>1. CASE modes[s].closed
  BY <1>1, Types DEF Mark, WorkspaceInv, BridgeIsNamed, HeldBridgeIsCurrent
<1>2. CASE ~modes[s].closed
  <2> DEFINE f == [modes[s] EXCEPT !.closed = TRUE, !.rt = NoSession]
             c == [closer[s] EXCEPT !.pc = "marked"]
  <2>1. modes[s] \in Fields
    BY Types
  <2>2. f \in Fields /\ f.closed = TRUE /\ f.rt = NoSession
    BY <2>1, FieldEdits
  <2>3. f.committing = modes[s].committing
    BY <2>1, FieldEdits
  <2>4. c \in Closing /\ c.pc = "marked"
    <3>1. closer[s] \in Closing
      BY Types
    <3> QED
      BY <3>1 DEF Closing
  <2>5. modes' = [modes EXCEPT ![s] = f] /\ closer' = [closer EXCEPT ![s] = c]
    BY <1>2 DEF Mark
  <2>6. closer[s].pc = "no"
    BY <1>2 DEF WorkspaceInv, CloseInv
  <2> HIDE DEF f, c
  <2> QED
    BY <2>1, <2>2, <2>3, <2>4, <2>5, <2>6, Types
<1> QED
  BY <1>1, <1>2

\* A session is closed: by session.error, a user or an expiry, or the exit of the Bridge.
LEMMA Marked ==
  ASSUME WorkspaceInv, NEW s \in Sessions, Mark(s), ~modes[s].committing \/ modes[s].closed,
         WithinAllowance', allowance'.committers = allowance.committers, exit' \in [Sessions -> Exit],
         UNCHANGED <<cur, shared, pod>>,
         UNCHANGED start \/ (start[s].pc = "error" /\ Goto(s, "done", NoSession))
  PROVE  WorkspaceInv'
<1>1. /\ modes' \in [Sessions -> Fields] /\ closer' \in [Sessions -> Closing]
      /\ \A t \in Sessions : t # s => modes'[t] = modes[t] /\ closer'[t] = closer[t]
      /\ modes'[s].closed /\ modes'[s].rt = NoSession /\ modes'[s].committing = modes[s].committing
  BY MarkEffect
<1>2. \/ closer'[s] = closer[s]
      \/ closer[s].pc = "no" /\ closer'[s].pc = "marked"
  BY MarkEffect
<1>3. /\ start' \in [Sessions -> [pc : StartPcs, on : Sessions \cup {NoSession}]]
      /\ \A t \in Sessions : start'[t] # start[t] => start[t].pc = "error" /\ start'[t].pc = "done"
  <2>1. CASE UNCHANGED start
    BY <2>1, Types
  <2>2. CASE start[s].pc = "error" /\ Goto(s, "done", NoSession)
    BY <2>2, StartMoves DEF StartPcs, After
  <2> QED
    BY <2>1, <2>2
<1>4. ~modes[s].committing
  BY DEF WorkspaceInv, CloseInv
<1>5. WorkspaceTypeOK'
  BY <1>1, <1>3, Types, TypesAfter
<1>6. LiveBridgeIsNamed'
  BY <1>1, <1>2, <1>3 DEF WorkspaceInv, BridgeIsNamed, LiveBridgeIsNamed, Closes
<1>7. HeldBridgeIsCurrent'
  BY <1>1 DEF WorkspaceInv, BridgeIsNamed, HeldBridgeIsCurrent
<1>8. closer[s].pc = "kill" /\ s \notin allowance.committers => closer[s].kill # NoSession
  BY DEF WorkspaceInv, CloseInv
<1>9. BridgeServesOpenModes'
  <2> SUFFICES ASSUME NEW u \in Sessions, NEW t \in Sessions,
                      closer'[u].pc = "kill", u \notin allowance'.committers
               PROVE  modes'[t].rt # closer'[u].kill
      BY DEF BridgeServesOpenModes
  <2>1. closer'[u] = closer[u]
    BY <1>1, <1>2
  <2>2. closer[u].kill # NoSession /\ modes[t].rt # closer[u].kill
    BY <2>1 DEF WorkspaceInv, CloseInv, BridgeIsNamed, BridgeServesOpenModes
  <2> QED
    BY <1>1, <2>1, <2>2
<1>10. StageInv'
  BY <1>1, <1>3 DEF WorkspaceInv, StageInv, Before, After
<1>11. CloseInv'
  <2>1. \A t \in Sessions : closer[t].kill \in Sessions \cup {NoSession}
    BY KillTyped
  <2>2. \A t \in Sessions : closer'[t].pc = "kill" => closer'[t] = closer[t]
    BY <1>1, <1>2
  <2> QED
    BY <1>1, <1>3, <1>4, <2>1, <2>2 DEF WorkspaceInv, CloseInv, Before
<1> QED
  BY <1>5, <1>6, <1>7, <1>9, <1>10, <1>11 DEF WorkspaceInv, BridgeIsNamed

LEMMA ErrorInv ==
  ASSUME WorkspaceInv, NEW s \in Sessions, Error(s)
  PROVE  WorkspaceInv'
<1>1. /\ WithinAllowance' /\ allowance'.committers = allowance.committers /\ start[s].pc = "error"
      /\ Goto(s, "done", NoSession) /\ UNCHANGED <<cur, shared, pod, exit, allowance>> /\ exit' \in [Sessions -> Exit]
  BY Unspent, Types DEF Error
<1>2. CASE modes[s].committing
  BY <1>1, <1>2, GoesOn DEF Error, CloseSession, After
<1>3. CASE ~modes[s].committing
  BY <1>1, <1>3, Marked DEF Error, CloseSession
<1> QED
  BY <1>2, <1>3

LEMMA UserCloseInv ==
  ASSUME WorkspaceInv, NEW s \in Sessions, UserClose(s)
  PROVE  WorkspaceInv'
<1>1. WithinAllowance' /\ allowance'.committers = allowance.committers /\ exit' \in [Sessions -> Exit]
  BY Unspent, Types DEF UserClose
<1> QED
  BY <1>1, Marked DEF UserClose

\* Only who hears of the exit changes.
LEMMA RouteInv ==
  ASSUME WorkspaceInv, NEW g \in Sessions, Route(g)
  PROVE  WorkspaceInv'
<1>1. shared[cur].members \in SUBSET Sessions \/ cur = NoSession
  BY Types DEF Entry
<1> DEFINE x == [pc |-> "routing", to |-> IF cur = NoSession THEN {g} ELSE shared[cur].members]
<1>2. x \in Exit
  BY <1>1 DEF Exit
<1>3. exit' = [exit EXCEPT ![g] = x] /\ UNCHANGED <<cur, shared, pod, modes, start, closer, allowance>>
  BY DEF Route
<1> HIDE DEF x
<1>4. WorkspaceTypeOK'
  BY <1>2, <1>3, Types, TypesAfter, Unspent
<1> QED
  BY <1>3, <1>4 DEF WorkspaceInv, BridgeIsNamed, LiveBridgeIsNamed, Closes, HeldBridgeIsCurrent,
                    BridgeServesOpenModes, StageInv, CloseInv

LEMMA DeliverInv ==
  ASSUME WorkspaceInv, NEW g \in Sessions, NEW s \in Sessions, Deliver(g, s)
  PROVE  WorkspaceInv'
<1> DEFINE x == [exit[g] EXCEPT !.to = @ \ {s}]
<1>1. x \in Exit
  <2>1. exit[g] \in Exit
    BY Types
  <2> QED
    BY <2>1 DEF Exit
<1>2. exit' = [exit EXCEPT ![g] = x] /\ UNCHANGED <<cur, shared, pod, start, allowance>>
  BY DEF Deliver
<1> HIDE DEF x
<1>3. exit' \in [Sessions -> Exit] /\ WithinAllowance' /\ allowance'.committers = allowance.committers
  BY <1>1, <1>2, Types, Unspent
<1>4. CASE Mark(s) /\ (modes[s].closed \/ ~modes[s].committing)
  BY <1>2, <1>3, <1>4, Marked
<1>5. CASE modes' = [modes EXCEPT ![s].exitPending = TRUE] /\ UNCHANGED closer
  <2> DEFINE f == [modes[s] EXCEPT !.exitPending = TRUE]
  <2>2. f \in Fields
    <3>1. modes[s] \in Fields
      BY Types
    <3> QED
      BY <3>1 DEF Fields
  <2>3. f.rt = modes[s].rt
    <3>1. modes[s] \in Fields
      BY Types
    <3> QED
      BY <3>1 DEF Fields
  <2>4. f.closed = modes[s].closed /\ f.committing = modes[s].committing
    <3>1. modes[s] \in Fields
      BY Types
    <3> QED
      BY <3>1 DEF Fields
  <2>5. modes' = [modes EXCEPT ![s] = f]
    BY <1>5
  <2> HIDE DEF f
  <2>1. modes' \in [Sessions -> Fields]
    BY <2>2, <2>5, Types
  <2>6. WorkspaceTypeOK'
    BY <1>2, <1>3, <1>5, <2>1, Types, TypesAfter
  <2>7. \A t \in Sessions : /\ modes'[t].rt = modes[t].rt /\ modes'[t].closed = modes[t].closed
                            /\ modes'[t].committing = modes[t].committing
    BY <2>3, <2>4, <2>5, Types
  <2>8. LiveBridgeIsNamed' /\ HeldBridgeIsCurrent' /\ BridgeServesOpenModes'
    BY <1>2, <1>5, <2>7 DEF WorkspaceInv, BridgeIsNamed, LiveBridgeIsNamed, Closes,
       HeldBridgeIsCurrent, BridgeServesOpenModes
  <2>9. StageInv' /\ CloseInv'
    BY <1>2, <1>5, <2>7 DEF WorkspaceInv, StageInv, CloseInv, Before, After
  <2> QED
    BY <2>6, <2>8, <2>9 DEF WorkspaceInv, BridgeIsNamed
<1>6. CASE UNCHANGED <<modes, closer>>
  <2>1. WorkspaceTypeOK'
    BY <1>2, <1>3, <1>6, Types, TypesAfter
  <2> QED
    BY <1>2, <1>6, <2>1 DEF WorkspaceInv, BridgeIsNamed, LiveBridgeIsNamed, Closes,
       HeldBridgeIsCurrent, BridgeServesOpenModes, StageInv, CloseInv
<1> QED
  BY <1>4, <1>5, <1>6 DEF Deliver

LEMMA LeaveInv ==
  ASSUME WorkspaceInv, NEW s \in Sessions, Leave(s)
  PROVE  WorkspaceInv'
<1>1. /\ closer[s].pc = "marked" /\ UNCHANGED <<pod, exit, modes, start, allowance>>
      /\ modes[s].closed /\ modes[s].rt = NoSession
  BY DEF Leave, WorkspaceInv, CloseInv, BridgeIsNamed, HeldBridgeIsCurrent
<1> DEFINE left == shared[cur].members \ {s}
           e == [shared[cur] EXCEPT !.members = left]
           c == [closer[s] EXCEPT !.pc = "done"]
           k == [pc |-> "kill", kill |-> cur]
<1>2. c \in Closing /\ c.pc = "done"
  <2>1. closer[s] \in Closing
    BY Types
  <2> QED
    BY <2>1 DEF Closing
<1>3. cur # NoSession => /\ e \in Entry /\ e.rt = shared[cur].rt /\ e.members = left
                         /\ k \in Closing /\ k.pc = "kill" /\ k.kill = cur /\ cur \in Sessions
  BY Types DEF Entry, Closing
<1>4. \/ cur = NoSession /\ closer' = [closer EXCEPT ![s] = c] /\ UNCHANGED <<cur, shared>>
      \/ /\ cur # NoSession /\ left = {} /\ shared' = [shared EXCEPT ![cur] = e]
         /\ cur' = NoSession /\ closer' = [closer EXCEPT ![s] = k]
      \/ /\ cur # NoSession /\ left # {} /\ shared' = [shared EXCEPT ![cur] = e]
         /\ cur' = cur /\ closer' = [closer EXCEPT ![s] = c]
  BY DEF Leave
<1>5. \A t \in Sessions : cur # NoSession /\ t # s /\ t \in shared[cur].members => t \in left
  OBVIOUS
<1>6. cur # NoSession /\ left = {} => \A t \in Sessions : modes[t].rt # cur
  BY <1>1, <1>5 DEF WorkspaceInv, BridgeIsNamed, HeldBridgeIsCurrent
<1> HIDE DEF left, e, c, k
<1>7. /\ closer' \in [Sessions -> Closing] /\ shared' \in [Sessions -> Entry] /\ cur' \in Sessions \cup {NoSession}
      /\ \A t \in Sessions : t # s => closer'[t] = closer[t]
      /\ closer'[s] = c \/ (cur # NoSession /\ cur' = NoSession /\ closer'[s] = k)
      /\ \A g \in Sessions : shared'[g].rt = shared[g].rt
      /\ cur' = cur \/ (cur' = NoSession /\ closer'[s] = k /\ \A t \in Sessions : modes[t].rt # cur)
  BY <1>2, <1>3, <1>4, <1>6, Types
<1>8. \A g, t \in Sessions : cur = g /\ t # s /\ t \in shared[g].members => t \in shared'[g].members
  BY <1>3, <1>4, <1>5, Types
<1>9. WorkspaceTypeOK'
  BY <1>1, <1>7, Types, TypesAfter, Unspent
<1>10. LiveBridgeIsNamed'
  BY <1>1, <1>2, <1>3, <1>7 DEF WorkspaceInv, BridgeIsNamed, LiveBridgeIsNamed, Closes
<1>11. HeldBridgeIsCurrent'
  BY <1>1, <1>7, <1>8, Types DEF WorkspaceInv, BridgeIsNamed, HeldBridgeIsCurrent
<1>12. BridgeServesOpenModes'
  BY <1>1, <1>2, <1>3, <1>4, <1>7 DEF WorkspaceInv, BridgeIsNamed, BridgeServesOpenModes
<1>13. StageInv'
  BY <1>1, <1>7, <1>8, Types DEF WorkspaceInv, StageInv, Before, After
<1>14. CloseInv'
  <2>1. \A t \in Sessions : closer[t].kill \in Sessions \cup {NoSession}
    BY KillTyped
  <2>2. \A t \in Sessions : t # s /\ closer[t].pc = "kill" /\ t \notin allowance.committers
          => closer[t].kill # NoSession /\ closer[t].kill # cur'
    BY <1>7 DEF WorkspaceInv, CloseInv
  <2>3. closer'[s].pc = "kill" => closer'[s].kill = cur /\ cur \in Sessions /\ cur' = NoSession
    BY <1>2, <1>3, <1>7, Types
  <2>4. cur # NoSession => start[cur].pc \notin Before
    BY <1>3 DEF WorkspaceInv, StageInv
  <2> QED
    BY <1>1, <1>7, <2>1, <2>2, <2>3, <2>4, Types DEF WorkspaceInv, CloseInv
<1> QED
  BY <1>9, <1>10, <1>11, <1>12, <1>13, <1>14 DEF WorkspaceInv, BridgeIsNamed

LEMMA CommitBeginsInv ==
  ASSUME WorkspaceInv, NEW s \in Sessions, CommitBegins(s)
  PROVE  WorkspaceInv'
<1> DEFINE f == [modes[s] EXCEPT !.committing = TRUE]
<1>0. modes[s] \in Fields
  BY Types
<1>1. f \in Fields
  BY <1>0 DEF Fields
<1>2. f.rt = modes[s].rt
  BY <1>0 DEF Fields
<1>3. f.closed = modes[s].closed
  BY <1>0 DEF Fields
<1>4. /\ modes' = [modes EXCEPT ![s] = f] /\ s \in allowance.committers /\ ~modes[s].closed
      /\ UNCHANGED <<cur, shared, pod, exit, start, closer, allowance>>
  BY DEF CommitBegins
<1> HIDE DEF f
<1>5. modes' \in [Sessions -> Fields]
  BY <1>1, <1>4, Types
<1>6. WorkspaceTypeOK'
  BY <1>4, <1>5, Types, TypesAfter, Unspent
<1>7. /\ \A t \in Sessions : modes'[t].rt = modes[t].rt /\ modes'[t].closed = modes[t].closed
      /\ \A t \in Sessions : t # s => modes'[t] = modes[t]
  BY <1>2, <1>3, <1>4, Types
<1>8. LiveBridgeIsNamed' /\ HeldBridgeIsCurrent' /\ BridgeServesOpenModes'
  BY <1>4, <1>7 DEF WorkspaceInv, BridgeIsNamed, LiveBridgeIsNamed, Closes, HeldBridgeIsCurrent,
     BridgeServesOpenModes
<1>9. StageInv' /\ CloseInv'
  BY <1>4, <1>7 DEF WorkspaceInv, StageInv, CloseInv, Before, After
<1> QED
  BY <1>6, <1>8, <1>9 DEF WorkspaceInv, BridgeIsNamed

\* A session that commits was not closed, so that its close names no other Bridge.
LEMMA CommitEndsInv ==
  ASSUME WorkspaceInv, NEW s \in Sessions, CommitEnds(s)
  PROVE  WorkspaceInv'
<1>1. /\ modes[s].committing /\ ~modes[s].closed /\ s \in allowance.committers /\ closer[s].pc = "no"
      /\ UNCHANGED <<cur, shared, pod, exit, start, allowance>>
  BY DEF CommitEnds, WorkspaceInv, CloseInv
<1> DEFINE f == [modes[s] EXCEPT !.committing = FALSE]
           d == [f EXCEPT !.closed = TRUE, !.rt = NoSession]
           k == [pc |-> "kill", kill |-> modes[s].rt]
<1>2. /\ f \in Fields /\ f.committing = FALSE /\ f.closed = modes[s].closed /\ f.rt = modes[s].rt
  BY Types, FieldEdits
<1>3. k \in Closing /\ k.pc = "kill" /\ k.kill = modes[s].rt
  BY Types DEF Closing, Fields
<1>4. CASE modes' = [modes EXCEPT ![s] = f] /\ UNCHANGED closer
  <2> HIDE DEF f
  <2>1. modes' \in [Sessions -> Fields]
    BY <1>2, <1>4, Types
  <2>2. WorkspaceTypeOK'
    BY <1>1, <1>4, <2>1, Types, TypesAfter, Unspent
  <2>3. /\ \A t \in Sessions : modes'[t].rt = modes[t].rt /\ modes'[t].closed = modes[t].closed
        /\ \A t \in Sessions : t # s => modes'[t] = modes[t]
        /\ modes'[s].committing = FALSE
    BY <1>2, <1>4, Types
  <2>4. LiveBridgeIsNamed' /\ HeldBridgeIsCurrent' /\ BridgeServesOpenModes'
    BY <1>1, <1>4, <2>3 DEF WorkspaceInv, BridgeIsNamed, LiveBridgeIsNamed, Closes,
       HeldBridgeIsCurrent, BridgeServesOpenModes
  <2>5. StageInv' /\ CloseInv'
    BY <1>1, <1>4, <2>3 DEF WorkspaceInv, StageInv, CloseInv, Before, After
  <2> QED
    BY <2>2, <2>4, <2>5 DEF WorkspaceInv, BridgeIsNamed
<1>5. CASE modes' = [modes EXCEPT ![s] = d] /\ closer' = [closer EXCEPT ![s] = k]
  <2>1. d \in Fields /\ d.closed = TRUE /\ d.rt = NoSession /\ d.committing = FALSE
    <3> HIDE DEF f
    <3> QED
      BY <1>2, FieldEdits
  <2> HIDE DEF f, d, k
  <2>2. modes' \in [Sessions -> Fields] /\ closer' \in [Sessions -> Closing]
    BY <1>3, <1>5, <2>1, Types
  <2>3. WorkspaceTypeOK'
    BY <1>1, <2>2, Types, TypesAfter, Unspent
  <2>4. /\ \A t \in Sessions : t # s => modes'[t] = modes[t] /\ closer'[t] = closer[t]
        /\ modes'[s].closed = TRUE /\ modes'[s].rt = NoSession /\ modes'[s].committing = FALSE
        /\ closer'[s].pc = "kill" /\ closer'[s].kill = modes[s].rt
    BY <1>3, <1>5, <2>1, Types
  <2>5. modes[s].rt # NoSession => modes[s].rt \in Sessions /\ start[modes[s].rt].pc \notin Before
    BY Types DEF WorkspaceInv, BridgeIsNamed, HeldBridgeIsCurrent, StageInv
  <2>6. LiveBridgeIsNamed'
    BY <1>1, <2>4 DEF WorkspaceInv, BridgeIsNamed, LiveBridgeIsNamed, Closes
  <2>7. HeldBridgeIsCurrent'
    BY <1>1, <2>4 DEF WorkspaceInv, BridgeIsNamed, HeldBridgeIsCurrent
  <2>8. BridgeServesOpenModes'
    <3> SUFFICES ASSUME NEW u \in Sessions, NEW t \in Sessions,
                        closer'[u].pc = "kill", u \notin allowance'.committers
                 PROVE  modes'[t].rt # closer'[u].kill
        BY DEF BridgeServesOpenModes
    <3>1. u # s /\ closer'[u] = closer[u] /\ u \notin allowance.committers
      BY <1>1, <2>4
    <3>2. closer[u].kill # NoSession /\ modes[t].rt # closer[u].kill
      BY <3>1 DEF WorkspaceInv, CloseInv, BridgeIsNamed, BridgeServesOpenModes
    <3> QED
      BY <2>4, <3>1, <3>2
  <2>9. StageInv'
    BY <1>1, <2>4 DEF WorkspaceInv, StageInv, Before, After
  <2>10. CloseInv'
    BY <1>1, <2>4, <2>5 DEF WorkspaceInv, CloseInv
  <2> QED
    BY <2>3, <2>6, <2>7, <2>8, <2>9, <2>10 DEF WorkspaceInv, BridgeIsNamed
<1>6. \/ modes' = [modes EXCEPT ![s] = f] /\ UNCHANGED closer
      \/ modes' = [modes EXCEPT ![s] = d] /\ closer' = [closer EXCEPT ![s] = k]
  BY DEF CommitEnds
<1> QED
  BY <1>4, <1>5, <1>6

LEMMA WorkspaceNextInv == WorkspaceInv /\ [WorkspaceNext]_workspaceVars => WorkspaceInv'
<1> SUFFICES ASSUME WorkspaceInv, [WorkspaceNext]_workspaceVars
             PROVE  WorkspaceInv'
    OBVIOUS
<1>1. CASE UNCHANGED workspaceVars
  <2>1. WorkspaceTypeOK'
    BY <1>1, Types, TypesAfter, Unspent DEF workspaceVars
  <2> QED
    BY <1>1, <2>1 DEF workspaceVars, WorkspaceInv, BridgeIsNamed, LiveBridgeIsNamed, Closes,
       HeldBridgeIsCurrent, BridgeServesOpenModes, StageInv, CloseInv
<1>2. CASE WorkspaceNext
  <2>1. PICK s \in Sessions :
          \/ Create(s) \/ StartStep(s) \/ UserClose(s) \/ Leave(s) \/ Kill(s)
          \/ CommitBegins(s) \/ CommitEnds(s) \/ PodExits(s) \/ Route(s)
          \/ \E t \in Sessions : Deliver(s, t)
    BY <1>2 DEF WorkspaceNext
  <2>2. CASE Create(s)
    BY <2>2, CreateInv
  <2>3. CASE StartStep(s)
    BY <2>3, BeginInv, WokenInv, NewEntryInv, StartReturnsInv, StartFailedInv, AttachInv, DownInv,
       SessionStartInv, StartedInv, ErrorInv DEF StartStep
  <2>4. CASE UserClose(s) \/ Leave(s)
    BY <2>4, UserCloseInv, LeaveInv
  <2>5. CASE Kill(s) \/ PodExits(s)
    BY <2>5, DownInv
  <2>6. CASE CommitBegins(s) \/ CommitEnds(s)
    BY <2>6, CommitBeginsInv, CommitEndsInv
  <2>7. CASE Route(s) \/ \E t \in Sessions : Deliver(s, t)
    BY <2>7, RouteInv, DeliverInv
  <2> QED
    BY <2>1, <2>2, <2>3, <2>4, <2>5, <2>6, <2>7
<1> QED
  BY <1>1, <1>2

-----------------------------------------------------------------------------
(* Who will close the Bridge                                                 *)

Serving == {"init", "inited", "opening"}

\* A session with the Bridge has it as long as it is open.
HasBridge(s) ==
  ~modes[s].closed /\ (start[s].pc \in Serving \/ modes[s].started \/ modes[s].committing) => modes[s].rt # NoSession

\* A closed session in the entry of a Bridge that runs
ClosedIsExcused(s) ==
  cur # NoSession /\ s \in shared[cur].members /\ modes[s].closed /\ shared[cur].rt /\ pod[cur] = "live" =>
    \/ closer[s].pc = "marked" \/ start[s] = [pc |-> "late", on |-> cur]
    \/ \E t \in Sessions : Closes(t, cur)

\* The entry has sessions; until it has the Bridge, the one that starts it.
EntryInv ==
  /\ cur # NoSession => shared[cur].members # {}
  /\ cur # NoSession /\ ~shared[cur].rt => shared[cur].members \subseteq {cur}
  /\ \A g \in Sessions : cur = g /\ pod[g] = "live" /\ start[g].pc \in After => shared[g].rt

OwnInv == EntryInv /\ \A s \in Sessions : HasBridge(s) /\ ClosedIsExcused(s)

LEMMA Owned ==
  ASSUME WorkspaceInv, OwnInv
  PROVE  BridgeIsAccountedFor
<1>1. ASSUME NEW g \in Sessions, pod[g] = "live"
      PROVE  \/ cur = g /\ \E s \in Sessions : Uses(s, g) \/ CameLate(s, g)
             \/ start[g].pc \in {"attach", "discard"}
             \/ \E s \in Sessions : Closes(s, g)
  <2> SUFFICES ASSUME start[g].pc \notin {"attach", "discard"}, ~\E s \in Sessions : Closes(s, g)
               PROVE  cur = g /\ \E s \in Sessions : Uses(s, g) \/ CameLate(s, g)
      OBVIOUS
  <2>1. cur = g /\ start[g].pc \in After
    BY <1>1 DEF WorkspaceInv, BridgeIsNamed, LiveBridgeIsNamed, StageInv
  <2>2. shared[g].rt /\ shared[g].members # {} /\ g # NoSession /\ shared[g].members \subseteq Sessions
    BY <1>1, <2>1, Types DEF OwnInv, EntryInv, Entry
  <2>3. PICK s \in Sessions : s \in shared[g].members
    BY <2>2
  <2>4. ClosedIsExcused(s)
    BY DEF OwnInv
  <2> QED
    BY <1>1, <2>1, <2>2, <2>3, <2>4 DEF ClosedIsExcused, Uses, CameLate
<1> QED
  BY <1>1 DEF WorkspaceInv, BridgeIsNamed, BridgeIsAccountedFor, LiveBridgeIsOwned

\* What a goroutine may do of its own accord
Advances(s) ==
  \A t \in Sessions :
    \/ start'[t] = start[t]
    \/ /\ t = s /\ start[t].pc # "late" /\ (start'[t].pc \in Serving => start[t].pc \in Serving)
       /\ start'[t].pc \in After => start[t].pc \in After \/ pod'[t] # "live"

\* What may happen to the fields of a session
Lives(t) ==
  /\ modes[t].closed => modes'[t].closed
  /\ ~modes'[t].closed => /\ modes'[t].rt = modes[t].rt
                          /\ modes'[t].started => modes[t].started \/ start[t].pc = "inited"
                          /\ modes'[t].committing => modes[t].committing \/ modes[t].started
  /\ modes'[t].closed => \/ modes[t].closed \/ closer'[t].pc = "marked"
                         \/ (modes[t].committing /\ closer'[t].pc = "kill" /\ closer'[t].kill = modes[t].rt)
  /\ modes[t].closed /\ closer[t].pc = "marked" => closer'[t].pc = "marked"

\* The entry stays as it is.
LEMMA Quiet ==
  ASSUME WorkspaceInv, OwnInv, NEW s \in Sessions, Advances(s), \A t \in Sessions : Lives(t), UNCHANGED <<cur, shared>>,
         \A g \in Sessions : pod'[g] = "live" =>
           pod[g] = "live" /\ \A t \in Sessions : Closes(t, g) => Closes(t, g)'
  PROVE  OwnInv'
<1>1. EntryInv'
  BY DEF OwnInv, EntryInv, Advances
<1>2. ASSUME NEW t \in Sessions PROVE HasBridge(t)'
  <2>1. HasBridge(t) /\ Lives(t)
    BY DEF OwnInv
  <2> QED
    BY <2>1 DEF HasBridge, Lives, Advances, Serving
<1>3. ASSUME NEW t \in Sessions PROVE ClosedIsExcused(t)'
  <2> SUFFICES ASSUME cur # NoSession, t \in shared[cur].members, modes'[t].closed, shared[cur].rt, pod'[cur] = "live"
               PROVE  \/ closer'[t].pc = "marked" \/ start'[t] = [pc |-> "late", on |-> cur]
                      \/ \E u \in Sessions : Closes(u, cur)'
      BY DEF ClosedIsExcused, Closes
  <2>1. HasBridge(t) /\ ClosedIsExcused(t) /\ Lives(t) /\ cur \in Sessions
    BY Types DEF OwnInv
  <2>2. pod[cur] = "live" /\ \A u \in Sessions : Closes(u, cur) => Closes(u, cur)'
    BY <2>1
  <2>3. CASE modes[t].closed
    <3>1. CASE closer[t].pc = "marked"
      BY <2>1, <2>3, <3>1 DEF Lives
    <3>2. CASE start[t] = [pc |-> "late", on |-> cur]
      BY <3>2 DEF Advances
    <3>3. CASE \E u \in Sessions : Closes(u, cur)
      BY <2>2, <3>3
    <3> QED
      BY <2>1, <2>2, <2>3, <3>1, <3>2, <3>3 DEF ClosedIsExcused
  <2>4. CASE ~modes[t].closed
    <3>1. CASE closer'[t].pc = "marked"
      BY <3>1
    <3>2. CASE modes[t].committing /\ closer'[t].pc = "kill" /\ closer'[t].kill = modes[t].rt
      <4>1. modes[t].rt = cur
        BY <2>1, <2>4, <3>2 DEF HasBridge, WorkspaceInv, BridgeIsNamed, HeldBridgeIsCurrent
      <4>2. Closes(t, cur)'
        BY <3>2, <4>1 DEF Closes
      <4> QED
        BY <4>2
    <3> QED
      BY <2>1, <2>4, <3>1, <3>2 DEF Lives
  <2> QED
    BY <2>3, <2>4
<1> QED
  BY <1>1, <1>2, <1>3 DEF OwnInv

\* Sessions and closes stay as they are.
LEMMA SameModes ==
  ASSUME WorkspaceInv, UNCHANGED <<modes, closer>>
  PROVE  \A t \in Sessions : Lives(t)
<1> SUFFICES ASSUME NEW t \in Sessions PROVE Lives(t)
    OBVIOUS
<1>1. modes'[t] = modes[t] /\ closer'[t] = closer[t]
  OBVIOUS
<1> QED
  BY <1>1 DEF Lives

LEMMA GoesOnOwn ==
  ASSUME WorkspaceInv, OwnInv, NEW s \in Sessions, NEW pc \in StartPcs, NEW g \in Sessions \cup {NoSession}, Goto(s, pc, g),
         start[s].pc # "late", pc \in Serving => start[s].pc \in Serving, pc \in After => start[s].pc \in After \/ pod[s] # "live",
         UNCHANGED <<cur, shared, pod, modes, closer>>
  PROVE  OwnInv'
<1>0. start'[s].pc = pc /\ (\A t \in Sessions : t # s => start'[t] = start[t]) /\ pod' = pod
  BY StartMoves
<1>1. Advances(s)
  BY <1>0, Zenon DEF Advances
<1> QED
  BY <1>1, SameModes, Quiet DEF Closes

\* A session takes the runtime of the entry, or comes late.
LEMMA EntersOwn ==
  ASSUME WorkspaceInv, OwnInv, NEW s \in Sessions, cur # NoSession, shared[cur].rt, UNCHANGED <<cur, pod, closer>>,
         start[s].pc = "wait" \/ start[s].pc = "begin",
         \/ ~modes[s].closed /\ Join(s, cur)
         \/ /\ modes[s].closed /\ Goto(s, "late", cur) /\ UNCHANGED modes
            /\ shared' = [shared EXCEPT ![cur].members = @ \cup {s}]
  PROVE  OwnInv'
<1>1. cur \in Sessions
  BY Types
<1>2. /\ \A t \in Sessions : t # s => start'[t] = start[t]
      /\ modes[s].closed => start'[s] = [pc |-> "late", on |-> cur]
      /\ start'[s].pc \in {"init", "late"}
  <2>1. CASE ~modes[s].closed /\ Join(s, cur)
    <3>1. Goto(s, "init", cur)
      BY <2>1, Zenon DEF Join
    <3>2. start'[s].pc = "init" /\ \A t \in Sessions : t # s => start'[t] = start[t]
      BY <1>1, <3>1, StartMoves DEF StartPcs, After
    <3> QED
      BY <2>1, <3>2
  <2>2. CASE modes[s].closed /\ Goto(s, "late", cur)
    BY <1>1, <2>2, StartMoves DEF StartPcs, After
  <2> QED
    BY <2>1, <2>2
<1> DEFINE e == [shared[cur] EXCEPT !.members = @ \cup {s}]
           f == [modes[s] EXCEPT !.rt = cur]
<1>3. e.rt = shared[cur].rt /\ e.members = shared[cur].members \cup {s}
  <2>1. shared[cur] \in Entry
    BY <1>1, Types
  <2> QED
    BY <2>1 DEF Entry
<1>4. modes[s] \in Fields
  BY Types
<1>5. f.rt = cur /\ f.closed = modes[s].closed
  BY <1>1, <1>4 DEF Fields
<1>6. f.committing = modes[s].committing /\ f.started = modes[s].started
  BY <1>1, <1>4 DEF Fields
<1>7. shared' = [shared EXCEPT ![cur] = e] /\ (modes' = [modes EXCEPT ![s] = f] \/ (modes[s].closed /\ UNCHANGED modes))
  BY DEF Join
<1> HIDE DEF e, f
<1>8. /\ shared'[cur].rt /\ shared'[cur].members = shared[cur].members \cup {s}
      /\ \A t \in Sessions : t # s => modes'[t] = modes[t]
      /\ modes'[s].closed = modes[s].closed /\ (modes[s].closed \/ modes'[s].rt = cur)
  BY <1>1, <1>3, <1>5, <1>6, <1>7, Types
<1>9. pod[s] = "none" /\ cur # s
  BY DEF WorkspaceInv, StageInv, Before, After
<1>10. EntryInv'
  BY <1>1, <1>2, <1>8, <1>9 DEF OwnInv, EntryInv
<1>11. ASSUME NEW t \in Sessions PROVE HasBridge(t)'
  <2>1. HasBridge(t)
    BY DEF OwnInv
  <2> QED
    BY <1>1, <1>2, <1>8, <2>1, Types DEF HasBridge
<1>12. ASSUME NEW t \in Sessions PROVE ClosedIsExcused(t)'
  <2>1. ClosedIsExcused(t)
    BY DEF OwnInv
  <2> QED
    BY <1>1, <1>2, <1>8, <2>1 DEF ClosedIsExcused, Closes
<1> QED
  BY <1>10, <1>11, <1>12 DEF OwnInv

LEMMA BeginOwn ==
  ASSUME WorkspaceInv, OwnInv, NEW s \in Sessions, Begin(s) \/ Woken(s)
  PROVE  OwnInv'
<1>1. pod[s] = "none" /\ cur \in Sessions \cup {NoSession} /\ start[s].pc \in {"begin", "wait"}
  BY Types DEF Begin, Woken, WorkspaceInv, StageInv, After
<1>2. \/ /\ cur # NoSession /\ shared[cur].rt
         /\ \/ ~modes[s].closed /\ Join(s, cur)
            \/ /\ modes[s].closed /\ Goto(s, "late", cur) /\ UNCHANGED modes
               /\ shared' = [shared EXCEPT ![cur].members = @ \cup {s}]
      \/ UNCHANGED <<shared, modes>> /\ \E pc \in {"create", "wait", "begin", "done", "gaveUp"} : Goto(s, pc, NoSession) \/ Goto(s, pc, cur)
  BY DEF Begin, Woken
<1>3. UNCHANGED <<cur, pod, closer>>
  BY DEF Begin, Woken
<1> QED
  BY <1>1, <1>2, <1>3, EntersOwn, GoesOnOwn DEF StartPcs, Before, After, Serving

\* The entry is new, or gone.
LEMMA OtherEntry ==
  ASSUME WorkspaceInv, OwnInv, UNCHANGED modes, cur' \in Sessions \cup {NoSession},
         NEW s \in Sessions, \A t \in Sessions : t # s => start'[t] = start[t], start'[s].pc \notin Serving,
         cur' = NoSession \/ (cur' = s /\ shared'[s].members = {s} /\ ~shared'[s].rt /\ pod'[s] # "live")
  PROVE  OwnInv'
<1>1. EntryInv'
  BY Types DEF EntryInv
<1>2. ASSUME NEW t \in Sessions PROVE HasBridge(t)'
  <2>1. HasBridge(t)
    BY DEF OwnInv
  <2> QED
    BY <2>1 DEF HasBridge
<1>3. ASSUME NEW t \in Sessions PROVE ClosedIsExcused(t)'
  BY DEF ClosedIsExcused
<1> QED
  BY <1>1, <1>2, <1>3 DEF OwnInv

LEMMA NewEntryOwn ==
  ASSUME WorkspaceInv, OwnInv, NEW s \in Sessions, NewEntry(s)
  PROVE  OwnInv'
<1>1. start[s].pc = "create" /\ UNCHANGED <<pod, modes, closer>>
  BY DEF NewEntry
<1>2. CASE Goto(s, "begin", NoSession) /\ UNCHANGED <<cur, shared>>
  BY <1>1, <1>2, GoesOnOwn DEF StartPcs, Before, After, Serving
<1>3. CASE cur' = s /\ Goto(s, "start", s) /\ shared' = [shared EXCEPT ![s].members = {s}]
  <2>1. start'[s].pc = "start" /\ \A t \in Sessions : t # s => start'[t] = start[t]
    BY <1>3, StartMoves DEF StartPcs
  <2> DEFINE e == [shared[s] EXCEPT !.members = {s}]
  <2>2. e.rt = shared[s].rt /\ e.members = {s}
    <3>1. shared[s] \in Entry
      BY Types
    <3> QED
      BY <3>1 DEF Entry
  <2>3. shared' = [shared EXCEPT ![s] = e]
    BY <1>3
  <2> HIDE DEF e
  <2>4. shared'[s].members = {s} /\ shared'[s].rt = shared[s].rt
    BY <2>2, <2>3, Types
  <2>5. ~shared[s].rt /\ pod[s] # "live"
    BY <1>1 DEF WorkspaceInv, StageInv, After
  <2> QED
    BY <1>1, <1>3, <2>1, <2>4, <2>5, OtherEntry DEF Serving
<1> QED
  BY <1>2, <1>3 DEF NewEntry

LEMMA StartReturnsOwn ==
  ASSUME WorkspaceInv, OwnInv, NEW s \in Sessions, StartReturns(s)
  PROVE  OwnInv'
<1>1. start[s].pc = "start" /\ UNCHANGED <<cur, shared, modes, closer>>
  BY DEF StartReturns
<1>2. CASE Goto(s, "fail", s) /\ UNCHANGED pod
  BY <1>1, <1>2, GoesOnOwn DEF StartPcs, After, Serving
<1>3. CASE Goto(s, "attach", s) /\ pod' = [pod EXCEPT ![s] = "live"]
  <2>1. start'[s].pc = "attach" /\ \A t \in Sessions : t # s => start'[t] = start[t] /\ pod'[t] = pod[t]
    BY <1>3, Types, StartMoves DEF StartPcs
  <2>2. ~shared[s].rt
    BY <1>1 DEF WorkspaceInv, StageInv, After
  <2>3. EntryInv'
    BY <1>1, <2>1 DEF OwnInv, EntryInv, After
  <2>4. ASSUME NEW t \in Sessions PROVE HasBridge(t)' /\ ClosedIsExcused(t)'
    <3>1. HasBridge(t) /\ ClosedIsExcused(t) /\ cur \in Sessions \cup {NoSession}
      BY Types DEF OwnInv
    <3>2. HasBridge(t)'
      BY <1>1, <2>1, <3>1 DEF HasBridge, Serving
    <3>3. ClosedIsExcused(t)'
      BY <1>1, <2>1, <2>2, <3>1 DEF ClosedIsExcused, Closes
    <3> QED
      BY <3>2, <3>3
  <2> QED
    BY <2>3, <2>4 DEF OwnInv
<1> QED
  BY <1>2, <1>3 DEF StartReturns

LEMMA StartFailedOwn ==
  ASSUME WorkspaceInv, OwnInv, NEW s \in Sessions, StartFailed(s)
  PROVE  OwnInv'
<1>1. start[s].pc = "fail" /\ Goto(s, "error", s) /\ UNCHANGED <<pod, modes, closer>>
  BY DEF StartFailed
<1>2. pod[s] = "none"
  BY <1>1 DEF WorkspaceInv, StageInv, After
<1>3. CASE cur # s
  BY <1>1, <1>2, <1>3, GoesOnOwn DEF StartFailed, StartPcs, After, Serving
<1>4. CASE cur = s
  <2>1. cur' = NoSession
    BY <1>4 DEF StartFailed
  <2>2. start'[s].pc = "error" /\ \A t \in Sessions : t # s => start'[t] = start[t]
    BY <1>1, StartMoves DEF StartPcs, After
  <2> QED
    BY <1>1, <2>1, <2>2, OtherEntry DEF Serving
<1> QED
  BY <1>3, <1>4

LEMMA AttachOwn ==
  ASSUME WorkspaceInv, OwnInv, NEW s \in Sessions, Attach(s)
  PROVE  OwnInv'
<1>1. start[s].pc = "attach" /\ UNCHANGED <<cur, pod, closer>>
  BY DEF Attach
<1>2. CASE cur # s \/ modes[s].closed
  BY <1>1, <1>2, GoesOnOwn DEF Attach, StartPcs, After, Serving
<1>3. CASE ~(cur # s \/ modes[s].closed)
  <2>1. Goto(s, "init", s) /\ cur = s /\ ~modes[s].closed /\ s # NoSession
    BY <1>3, Types DEF Attach
  <2>2. start'[s].pc = "init" /\ \A t \in Sessions : t # s => start'[t] = start[t]
    BY <2>1, StartMoves DEF StartPcs, After
  <2> DEFINE e == [shared[s] EXCEPT !.rt = TRUE, !.ready = TRUE]
             f == [modes[s] EXCEPT !.rt = s]
  <2>3. e.rt = TRUE /\ e.members = shared[s].members
    BY Types, EntryEdits
  <2>4. f.rt = s /\ f.closed = modes[s].closed
    <3>1. modes[s] \in Fields
      BY Types
    <3> QED
      BY <3>1 DEF Fields
  <2>5. shared' = [shared EXCEPT ![s] = e] /\ modes' = [modes EXCEPT ![s] = f]
    BY <1>3 DEF Attach
  <2> HIDE DEF e, f
  <2>6. /\ shared'[s].rt /\ shared'[s].members = shared[s].members
        /\ \A t \in Sessions : t # s => modes'[t] = modes[t]
        /\ modes'[s].rt = s /\ ~modes'[s].closed
    BY <2>1, <2>3, <2>4, <2>5, Types
  <2>7. ~shared[s].rt
    BY <1>1 DEF WorkspaceInv, StageInv, After
  <2>8. shared[s].members # {} /\ shared[s].members \subseteq {s}
    BY <2>1, <2>7 DEF OwnInv, EntryInv
  <2>9. EntryInv'
    BY <1>1, <2>1, <2>6, <2>8 DEF EntryInv
  <2>10. ASSUME NEW t \in Sessions PROVE HasBridge(t)' /\ ClosedIsExcused(t)'
    <3>1. HasBridge(t)
      BY DEF OwnInv
    <3>2. HasBridge(t)'
      BY <2>1, <2>2, <2>6, <3>1 DEF HasBridge
    <3>3. ClosedIsExcused(t)'
      BY <1>1, <2>1, <2>6, <2>8 DEF ClosedIsExcused
    <3> QED
      BY <3>2, <3>3
  <2> QED
    BY <2>9, <2>10 DEF OwnInv
<1> QED
  BY <1>2, <1>3

LEMMA DownOwn ==
  ASSUME WorkspaceInv, OwnInv, NEW s \in Sessions, Discard(s) \/ Kill(s) \/ PodExits(s)
  PROVE  OwnInv'
<1>1. CASE Discard(s)
  <2>1. Down(s) /\ Goto(s, "done", s) /\ start[s].pc = "discard" /\ UNCHANGED <<cur, shared, modes, closer>>
    BY <1>1 DEF Discard
  <2>2. \A g \in Sessions : pod'[g] = "live" => pod[g] = "live" /\ g # s
    BY <2>1, DownEffect
  <2>3. start'[s].pc = "done" /\ \A t \in Sessions : t # s => start'[t] = start[t]
    BY <2>1, StartMoves DEF StartPcs, After
  <2>4. Advances(s)
    BY <2>1, <2>2, <2>3 DEF Advances, Serving
  <2> QED
    BY <2>1, <2>2, <2>4, SameModes, Quiet DEF Closes
<1>2. CASE Kill(s)
  <2>1. closer[s].kill \in Sessions \cup {NoSession} /\ Down(closer[s].kill) /\ closer[s].pc = "kill"
        /\ closer' = [closer EXCEPT ![s].pc = "done"] /\ UNCHANGED <<cur, shared, modes, start, allowance>>
    BY <1>2, Types DEF Kill, Closing
  <2>2. \A g \in Sessions : pod'[g] = "live" => pod[g] = "live" /\ g # closer[s].kill
    BY <2>1, DownEffect
  <2>3. \A t \in Sessions : t # s => closer'[t] = closer[t]
    BY <2>1, Types
  <2>4. ASSUME NEW t \in Sessions PROVE Lives(t)
    <3>1. modes'[t] = modes[t] /\ (closer[t].pc = "marked" => closer'[t].pc = "marked")
      BY <2>1, <2>3
    <3> QED
      BY <3>1 DEF Lives
  <2> QED
    BY <2>1, <2>2, <2>3, <2>4, Quiet DEF Closes, Advances
<1>3. CASE PodExits(s)
  <2>1. Down(s) /\ UNCHANGED <<cur, shared, modes, start, closer>>
    BY <1>3 DEF PodExits
  <2>2. \A g \in Sessions : pod'[g] = "live" => pod[g] = "live"
    BY <2>1, DownEffect
  <2> QED
    BY <2>1, <2>2, SameModes, Quiet DEF Closes, Advances
<1> QED
  BY <1>1, <1>2, <1>3

\* Of a session that is closed or goes on, what a step leaves
LEMMA FieldsLive ==
  ASSUME WorkspaceInv, OwnInv, NEW s \in Sessions, NEW f \in Fields, modes' = [modes EXCEPT ![s] = f],
         closer' \in [Sessions -> Closing], \A t \in Sessions : t # s => closer'[t] = closer[t],
         f.closed => closer'[s].pc = "marked" \/ (modes[s].closed /\ closer'[s] = closer[s])
                     \/ (modes[s].committing /\ closer[s].pc = "no" /\ closer'[s].pc = "kill" /\ closer'[s].kill = modes[s].rt),
         ~f.closed => /\ ~modes[s].closed /\ f.rt = modes[s].rt /\ closer'[s] = closer[s]
                      /\ f.started => modes[s].started \/ start[s].pc = "inited"
                      /\ f.committing => modes[s].committing \/ modes[s].started
  PROVE  \A t \in Sessions : Lives(t)
<1> SUFFICES ASSUME NEW t \in Sessions PROVE Lives(t)
    OBVIOUS
<1>1. CASE t # s
  <2>1. modes'[t] = modes[t] /\ closer'[t] = closer[t]
    BY <1>1
  <2> QED
    BY <2>1 DEF Lives
<1>2. CASE t = s
  <2>1. modes'[s] = f
    BY Types
  <2>2. closer[s].pc = "marked" => closer[s].pc # "no"
    OBVIOUS
  <2>3. ~f.closed \/ f.closed
    OBVIOUS
  <2> QED
    BY <1>2, <2>1, <2>2, <2>3 DEF Lives
<1> QED
  BY <1>1, <1>2

LEMMA MarkLives ==
  ASSUME WorkspaceInv, OwnInv, NEW s \in Sessions, Mark(s)
  PROVE  (\A t \in Sessions : Lives(t)) /\ \A g, t \in Sessions : Closes(t, g) => Closes(t, g)'
<1>1. CASE modes[s].closed
  BY <1>1, SameModes DEF Mark, Closes
<1>2. CASE ~modes[s].closed
  <2> DEFINE f == [modes[s] EXCEPT !.closed = TRUE, !.rt = NoSession]
             c == [closer[s] EXCEPT !.pc = "marked"]
  <2>1. modes[s] \in Fields /\ closer[s] \in Closing /\ closer[s].pc = "no"
    BY <1>2, Types DEF WorkspaceInv, CloseInv
  <2>2. f \in Fields /\ f.closed = TRUE
    BY <2>1, FieldEdits
  <2>3. c \in Closing /\ c.pc = "marked"
    BY <2>1 DEF Closing
  <2>4. modes' = [modes EXCEPT ![s] = f] /\ closer' = [closer EXCEPT ![s] = c]
    BY <1>2 DEF Mark
  <2> HIDE DEF f, c
  <2>5. closer' \in [Sessions -> Closing] /\ closer'[s] = c /\ \A t \in Sessions : t # s => closer'[t] = closer[t]
    BY <2>3, <2>4, Types
  <2>6. \A t \in Sessions : Lives(t)
    BY <2>2, <2>3, <2>4, <2>5, FieldsLive
  <2> QED
    BY <2>1, <2>5, <2>6 DEF Closes
<1> QED
  BY <1>1, <1>2

\* A session is closed.
LEMMA MarkOwn ==
  ASSUME WorkspaceInv, OwnInv, NEW s \in Sessions, Mark(s), UNCHANGED <<cur, shared, pod>>,
         UNCHANGED start \/ (start[s].pc = "error" /\ Goto(s, "done", NoSession))
  PROVE  OwnInv'
<1>1. Advances(s)
  <2>1. CASE UNCHANGED start
    BY <2>1 DEF Advances
  <2>2. CASE start[s].pc = "error" /\ Goto(s, "done", NoSession)
    <3>1. start'[s].pc = "done" /\ \A t \in Sessions : t # s => start'[t] = start[t]
      BY <2>2, StartMoves DEF StartPcs, After
    <3> QED
      BY <2>2, <3>1 DEF Advances, Serving, After
  <2> QED
    BY <2>1, <2>2
<1> QED
  BY <1>1, MarkLives, Quiet

LEMMA GoOwn ==
  ASSUME WorkspaceInv, OwnInv, NEW s \in Sessions, SessionStart(s) \/ Opening(s) \/ Create(s)
  PROVE  OwnInv'
<1>1. start[s].pc # "late" /\ UNCHANGED <<cur, shared, pod, modes, closer>>
  BY DEF SessionStart, Opening, Create
<1>2. start[s].on \in Sessions \cup {NoSession}
  BY Types
<1>3. \/ start[s].pc \in Serving /\ Goto(s, "inited", start[s].on)
      \/ start[s].pc \in Serving /\ Goto(s, "error", start[s].on)
      \/ start[s].pc \in Serving /\ Goto(s, "done", NoSession)
      \/ Goto(s, "begin", NoSession)
  BY DEF SessionStart, Opening, Create, Serving
<1> QED
  BY <1>1, <1>2, <1>3, GoesOnOwn DEF StartPcs, Before, After, Serving

LEMMA StartedOwn ==
  ASSUME WorkspaceInv, OwnInv, NEW s \in Sessions, Started(s)
  PROVE  OwnInv'
<1>1. start[s].pc = "inited" /\ start[s].on \in Sessions \cup {NoSession} /\ UNCHANGED <<cur, shared, pod, closer>>
  BY Types DEF Started
<1>2. CASE Goto(s, "done", NoSession) /\ UNCHANGED modes
  BY <1>1, <1>2, GoesOnOwn DEF StartPcs, After, Serving
<1>3. CASE ~modes[s].closed /\ modes' = [modes EXCEPT ![s].started = TRUE] /\ Goto(s, "opening", start[s].on)
  <2> DEFINE f == [modes[s] EXCEPT !.started = TRUE]
  <2>1. modes[s] \in Fields
    BY Types
  <2>2. f \in Fields
    BY <2>1 DEF Fields
  <2>3. f.rt = modes[s].rt /\ f.closed = modes[s].closed
    BY <2>1 DEF Fields
  <2>4. f.committing = modes[s].committing
    BY <2>1 DEF Fields
  <2>5. modes' = [modes EXCEPT ![s] = f]
    BY <1>3
  <2> HIDE DEF f
  <2>6. \A t \in Sessions : Lives(t)
    BY <1>1, <1>3, <2>2, <2>3, <2>4, <2>5, Types, FieldsLive
  <2>7. start'[s].pc = "opening" /\ \A t \in Sessions : t # s => start'[t] = start[t]
    BY <1>1, <1>3, StartMoves DEF StartPcs, After
  <2>8. Advances(s)
    BY <1>1, <2>7 DEF Advances, Serving, After
  <2> QED
    BY <1>1, <2>6, <2>8, Quiet DEF Closes
<1> QED
  BY <1>2, <1>3 DEF Started

LEMMA CommitOwn ==
  ASSUME WorkspaceInv, OwnInv, NEW s \in Sessions, CommitBegins(s) \/ CommitEnds(s)
  PROVE  OwnInv'
<1>1. UNCHANGED <<cur, shared, pod, start>> /\ ~modes[s].closed /\ closer[s].pc = "no"
  BY DEF CommitBegins, CommitEnds, WorkspaceInv, CloseInv
<1>2. modes[s] \in Fields /\ closer \in [Sessions -> Closing]
  BY Types
<1>3. CASE modes[s].started /\ modes' = [modes EXCEPT ![s].committing = TRUE] /\ UNCHANGED closer
  <2> DEFINE f == [modes[s] EXCEPT !.committing = TRUE]
  <2>1. f \in Fields
    BY <1>2 DEF Fields
  <2>2. f.rt = modes[s].rt /\ f.closed = modes[s].closed
    BY <1>2 DEF Fields
  <2>3. f.started = modes[s].started
    BY <1>2 DEF Fields
  <2>4. modes' = [modes EXCEPT ![s] = f]
    BY <1>3
  <2> HIDE DEF f
  <2>5. \A t \in Sessions : Lives(t)
    BY <1>1, <1>2, <1>3, <2>1, <2>2, <2>3, <2>4, FieldsLive
  <2> QED
    BY <1>1, <1>3, <2>5, Quiet DEF Closes, Advances
<1> DEFINE f == [modes[s] EXCEPT !.committing = FALSE]
           d == [f EXCEPT !.closed = TRUE, !.rt = NoSession]
           k == [pc |-> "kill", kill |-> modes[s].rt]
<1>4. f \in Fields /\ f.closed = modes[s].closed /\ f.rt = modes[s].rt /\ f.committing = FALSE
  BY <1>2, FieldEdits
<1>5. f.started = modes[s].started
  BY <1>2 DEF Fields
<1>6. CASE modes' = [modes EXCEPT ![s] = f] /\ UNCHANGED closer
  <2> HIDE DEF f
  <2>1. \A t \in Sessions : Lives(t)
    BY <1>1, <1>2, <1>4, <1>5, <1>6, FieldsLive
  <2> QED
    BY <1>1, <1>6, <2>1, Quiet DEF Closes, Advances
<1>7. CASE modes[s].committing /\ modes' = [modes EXCEPT ![s] = d] /\ closer' = [closer EXCEPT ![s] = k]
  <2>1. d \in Fields /\ d.closed = TRUE
    <3> HIDE DEF f
    <3> QED
      BY <1>4, FieldEdits
  <2>2. k \in Closing /\ k.pc = "kill" /\ k.kill = modes[s].rt
    BY <1>2 DEF Closing, Fields
  <2> HIDE DEF f, d, k
  <2>3. closer' \in [Sessions -> Closing] /\ closer'[s] = k /\ \A t \in Sessions : t # s => closer'[t] = closer[t]
    BY <1>2, <1>7, <2>2
  <2>4. \A t \in Sessions : Lives(t)
    BY <1>1, <1>7, <2>1, <2>2, <2>3, FieldsLive
  <2> QED
    BY <1>1, <2>3, <2>4, Quiet DEF Closes, Advances
<1>8. \/ modes[s].started /\ modes' = [modes EXCEPT ![s].committing = TRUE] /\ UNCHANGED closer
      \/ modes' = [modes EXCEPT ![s] = f] /\ UNCHANGED closer
      \/ modes[s].committing /\ modes' = [modes EXCEPT ![s] = d] /\ closer' = [closer EXCEPT ![s] = k]
  BY DEF CommitBegins, CommitEnds
<1> QED
  BY <1>3, <1>6, <1>7, <1>8

LEMMA ExitOwn ==
  ASSUME WorkspaceInv, OwnInv, NEW g \in Sessions, NEW s \in Sessions, Route(g) \/ Deliver(g, s)
  PROVE  OwnInv'
<1>1. UNCHANGED <<cur, shared, pod, start>>
  BY DEF Route, Deliver
<1>2. CASE UNCHANGED <<modes, closer>>
  BY <1>1, <1>2, SameModes, Quiet DEF Closes, Advances
<1>3. CASE Mark(s)
  BY <1>1, <1>3, MarkOwn
<1>4. CASE modes' = [modes EXCEPT ![s].exitPending = TRUE] /\ UNCHANGED closer /\ ~modes[s].closed
  <2> DEFINE f == [modes[s] EXCEPT !.exitPending = TRUE]
  <2>1. modes[s] \in Fields
    BY Types
  <2>2. f \in Fields
    BY <2>1 DEF Fields
  <2>3. f.rt = modes[s].rt /\ f.closed = modes[s].closed
    BY <2>1 DEF Fields
  <2>4. f.committing = modes[s].committing
    BY <2>1 DEF Fields
  <2>5. f.started = modes[s].started
    BY <2>1 DEF Fields
  <2>6. modes' = [modes EXCEPT ![s] = f]
    BY <1>4
  <2> HIDE DEF f
  <2>7. \A t \in Sessions : Lives(t)
    BY <1>4, <2>2, <2>3, <2>4, <2>5, <2>6, Types, FieldsLive
  <2> QED
    BY <1>1, <1>4, <2>7, Quiet DEF Closes, Advances
<1> QED
  BY <1>2, <1>3, <1>4 DEF Route, Deliver

LEMMA ErrorOwn ==
  ASSUME WorkspaceInv, OwnInv, NEW s \in Sessions, Error(s)
  PROVE  OwnInv'
<1>1. start[s].pc = "error" /\ Goto(s, "done", NoSession) /\ UNCHANGED <<cur, shared, pod>>
  BY DEF Error
<1>2. CASE UNCHANGED <<modes, closer>>
  BY <1>1, <1>2, GoesOnOwn DEF StartPcs, After, Serving
<1>3. CASE Mark(s)
  BY <1>1, <1>3, MarkOwn
<1> QED
  BY <1>2, <1>3 DEF Error, CloseSession

\* A session leaves: the last one takes the entry with it.
LEMMA LeaveOwn ==
  ASSUME WorkspaceInv, OwnInv, NEW s \in Sessions, Leave(s)
  PROVE  OwnInv'
<1>1. closer[s].pc = "marked" /\ UNCHANGED <<pod, modes, start>> /\ modes[s].closed
  BY DEF Leave, WorkspaceInv, CloseInv
<1>2. CASE cur' = NoSession
  <2>1. ASSUME NEW t \in Sessions PROVE HasBridge(t)' /\ ClosedIsExcused(t)'
    <3>1. HasBridge(t)
      BY DEF OwnInv
    <3> QED
      BY <1>1, <1>2, <3>1 DEF HasBridge, ClosedIsExcused
  <2>2. EntryInv'
    BY <1>2, Types DEF EntryInv
  <2> QED
    BY <2>1, <2>2 DEF OwnInv
<1>3. CASE cur' # NoSession
  <2> DEFINE e == [shared[cur] EXCEPT !.members = shared[cur].members \ {s}]
             c == [closer[s] EXCEPT !.pc = "done"]
  <2>1. /\ cur # NoSession /\ cur' = cur /\ shared[cur].members \ {s} # {}
        /\ shared' = [shared EXCEPT ![cur] = e] /\ closer' = [closer EXCEPT ![s] = c]
    BY <1>3 DEF Leave
  <2>2. cur \in Sessions /\ shared[cur] \in Entry
    BY <2>1, Types
  <2>3. e.rt = shared[cur].rt /\ e.members = shared[cur].members \ {s}
    BY <2>2 DEF Entry
  <2> HIDE DEF e, c
  <2>4. /\ shared'[cur].rt = shared[cur].rt /\ shared'[cur].members = shared[cur].members \ {s}
        /\ \A t \in Sessions : t # s => closer'[t] = closer[t]
    BY <2>1, <2>2, <2>3, Types
  <2>5. EntryInv'
    BY <1>1, <2>1, <2>4 DEF OwnInv, EntryInv
  <2>6. ASSUME NEW t \in Sessions PROVE HasBridge(t)' /\ ClosedIsExcused(t)'
    <3>1. HasBridge(t) /\ ClosedIsExcused(t)
      BY DEF OwnInv
    <3>2. HasBridge(t)'
      BY <1>1, <3>1 DEF HasBridge
    <3>3. \A u \in Sessions : Closes(u, cur) => u # s /\ Closes(u, cur)'
      BY <1>1, <2>1, <2>4 DEF Closes
    <3>4. ClosedIsExcused(t)'
      BY <1>1, <2>1, <2>4, <3>1, <3>3 DEF ClosedIsExcused, Closes
    <3> QED
      BY <3>2, <3>4
  <2> QED
    BY <2>5, <2>6 DEF OwnInv
<1> QED
  BY <1>2, <1>3

LEMMA OwnInitially == WorkspaceInit => OwnInv
BY DEF WorkspaceInit, OwnInv, EntryInv, HasBridge, ClosedIsExcused, Serving

LEMMA OwnNext == WorkspaceInv /\ OwnInv /\ [WorkspaceNext]_workspaceVars => OwnInv'
<1> SUFFICES ASSUME WorkspaceInv, OwnInv, [WorkspaceNext]_workspaceVars
             PROVE  OwnInv'
    OBVIOUS
<1>1. CASE UNCHANGED workspaceVars
  BY <1>1 DEF workspaceVars, OwnInv, EntryInv, HasBridge, ClosedIsExcused, Closes
<1>2. CASE WorkspaceNext
  <2>1. PICK s \in Sessions :
          \/ Create(s) \/ StartStep(s) \/ UserClose(s) \/ Leave(s) \/ Kill(s)
          \/ CommitBegins(s) \/ CommitEnds(s) \/ PodExits(s) \/ Route(s)
          \/ \E t \in Sessions : Deliver(s, t)
    BY <1>2 DEF WorkspaceNext
  <2>2. CASE StartStep(s)
    BY <2>2, BeginOwn, NewEntryOwn, StartReturnsOwn, StartFailedOwn, AttachOwn, DownOwn,
       GoOwn, StartedOwn, ErrorOwn DEF StartStep
  <2>3. CASE UserClose(s)
    BY <2>3, MarkOwn DEF UserClose
  <2> QED
    BY <2>1, <2>2, <2>3, GoOwn, LeaveOwn, DownOwn, CommitOwn, ExitOwn
<1> QED
  BY <1>1, <1>2

-----------------------------------------------------------------------------

\* Every Bridge is accounted for (startWorkspaceRuntime, closeSessionAtDeadline, Commit): one that
\* runs has a session that will close it, or one that came late; a session holds only the current
\* one; and one that is to be closed serves nobody.
THEOREM BridgesAccounted == WorkspaceSpec => []BridgeIsAccountedFor
<1>1. WorkspaceInit => WorkspaceInv /\ OwnInv
  BY WorkspaceInitInv, OwnInitially
<1>2. WorkspaceInv /\ OwnInv /\ [WorkspaceNext]_workspaceVars => (WorkspaceInv /\ OwnInv)'
  BY WorkspaceNextInv, OwnNext
<1>3. WorkspaceInv /\ OwnInv => BridgeIsAccountedFor
  BY Owned
<1> QED
  BY <1>1, <1>2, <1>3, PTL DEF WorkspaceSpec

-----------------------------------------------------------------------------
(* The conversation                                                          *)

\* A command in the name of a message is the prompt with that message.
SoundCommands == {c \in Command : c.by \in Messages => c.kind = "prompt" /\ c.text = c.by}

\* A command that is answered with success was executed: the prompts in G were given to the agent.
SoundLines(G) ==
  {l \in [kind : {"turn.start", "turn.end", "idle", "question", "response"}, by : Callers \cup {None},
          result : {None, "ok", "error"}, question : Nat] :
     l.kind = "response" /\ l.result = "ok" /\ l.by \in Messages => l.by \in G}

BudgetFields ==
  [messages : SUBSET Messages, answers : SUBSET Answers, kind : {"workspace", "guided", "plain"},
   questions : Nat, refused : Nat, ended : Nat]

BudgetInv == budget \in BudgetFields

SessionFields ==
  [busy : BOOLEAN, opening : BOOLEAN, queued : Messages \cup {None}, deferred : Messages \cup {None},
   started : BOOLEAN, pending : Nat, closed : BOOLEAN]

SessionInv ==
  /\ sess \in SessionFields
  /\ boot \in [pc : {"start", "wait", "idle", "send", "sent", "done"}, text : Texts \cup {None}]
  /\ boot.pc \in {"start", "wait"} => boot.text = None
  /\ reader \in Messages \cup {None}
  /\ question \in Nat

\* The way of a prompt: a command, the command the Bridge executes, the line that answers it and
\* the reply its caller takes
WayInv ==
  /\ cmds \in Seq(SoundCommands)
  /\ running \in SoundCommands \cup {NoCommand} /\ (running.by \in Messages => running.by \in given)
  /\ lines \in Seq(SoundLines(given))
  /\ reply \in [Callers -> {None, "ok", "error"}]
  /\ \A m \in Messages : reply[m] = "ok" => m \in given

ConversationInv == BudgetInv /\ SessionInv /\ WayInv

KeepsMessages ==
  \A m \in Messages :
    /\ m \in accepted' \ accepted => Kept(m)'
    /\ Kept(m) /\ ~Kept(m)' => sess.queued = m /\ ~sess.started /\ sess.queued' \in Messages

LEMMA NamesDiffer ==
  /\ {"boot", "reader", "auto", "start", "none"} \cap Messages = {} /\ Messages \cap Answers = {}
BY PromptAssumption

\* An answered prompt remains answered when more prompts are given.
LEMMA MoreIsGiven ==
  ASSUME NEW G, NEW H, G \subseteq H, NEW ls \in Seq(SoundLines(G)) PROVE ls \in Seq(SoundLines(H))
<1>1. SoundLines(G) \subseteq SoundLines(H)
  BY DEF SoundLines
<1> QED
  BY <1>1

LEMMA LinesAreSound ==
  ASSUME NEW G
  PROVE  /\ \A k \in {"turn.start", "turn.end", "idle"} : Line(k) \in SoundLines(G)
         /\ \A q \in Nat : Question(q) \in SoundLines(G)
         /\ \A c \in Callers : Response(c, "error") \in SoundLines(G)
         /\ \A c \in Callers : (c \in Messages => c \in G) => Response(c, "ok") \in SoundLines(G)
BY DEF Line, Question, Response, SoundLines

LEMMA WriteIsSound ==
  ASSUME cmds \in Seq(SoundCommands), NEW c \in Callers, NEW k \in {"start", "prompt", "answer"},
         NEW t \in Texts \cup {None}, NEW q \in Nat, c \in Messages => k = "prompt" /\ t = c,
         Write(c, k, t, q)
  PROVE  cmds' \in Seq(SoundCommands)
<1>1. [by |-> c, kind |-> k, text |-> t, question |-> q] \in SoundCommands
  BY DEF SoundCommands, Command
<1> QED
  BY <1>1, AppendProperties DEF Write

\* The fields of a session change one by one.
LEMMA FieldsChange ==
  ASSUME NEW s \in SessionFields
  PROVE  /\ \A b \in BOOLEAN : /\ [s EXCEPT !.busy = b] \in SessionFields
                               /\ [s EXCEPT !.opening = b] \in SessionFields
                               /\ [s EXCEPT !.started = b] \in SessionFields
                               /\ [s EXCEPT !.closed = b] \in SessionFields
         /\ \A m \in Messages \cup {None} : /\ [s EXCEPT !.queued = m] \in SessionFields
                                           /\ [s EXCEPT !.deferred = m] \in SessionFields
         /\ \A q \in Nat : [s EXCEPT !.pending = q] \in SessionFields
BY DEF SessionFields

LEMMA BudgetShrinks ==
  ASSUME BudgetInv
  PROVE  /\ budget.questions > 0 => [budget EXCEPT !.questions = @ - 1] \in BudgetFields
         /\ budget.refused > 0 => [budget EXCEPT !.refused = @ - 1] \in BudgetFields
         /\ budget.ended > 0 => [budget EXCEPT !.ended = @ - 1] \in BudgetFields
BY DEF BudgetInv, BudgetFields

LEMMA TakenKeeps ==
  ASSUME reply \in [Callers -> {None, "ok", "error"}], \A m \in Messages : reply[m] = "ok" => m \in given,
         NEW c, Taken(c)
  PROVE  /\ reply' \in [Callers -> {None, "ok", "error"}]
         /\ \A m \in Messages : reply'[m] = "ok" => m \in given
BY DEF Taken, None, Callers

LEMMA InitConversation == Init => ConversationInv
<1> SUFFICES ASSUME Init PROVE ConversationInv
  OBVIOUS
<1> USE DEF Init
<1>1. BudgetInv
  BY PromptAssumption DEF BudgetInv, BudgetFields
<1>2. SessionInv
  BY DEF SessionInv, SessionFields, None
<1>3. WayInv
  BY NamesDiffer, EmptySeq DEF WayInv, NoCommand, None, Callers
<1> QED
  BY <1>1, <1>2, <1>3 DEF ConversationInv

-----------------------------------------------------------------------------

LEMMA BootKeeps ==
  ASSUME ConversationInv, Boot PROVE ConversationInv' /\ KeepsMessages
<1> USE DEF ConversationInv, BudgetInv, SessionInv, SessionFields, BudgetFields
<1>1. CASE BootStart
  <2> USE <1>1 DEF BootStart
  <2>1. cmds' \in Seq(SoundCommands)
    BY WriteIsSound, NamesDiffer DEF WayInv, Callers
  <2>2. WayInv'
    BY <2>1 DEF WayInv, agent
  <2>3. KeepsMessages
    BY DEF KeepsMessages, Kept, agent
  <2> QED
    BY <2>2, <2>3 DEF agent
<1>2. CASE BootStarted
  <2> USE <1>2 DEF BootStarted
  <2>1. WayInv'
    BY TakenKeeps DEF WayInv, bridge, agent
  <2>2. UNCHANGED <<reader, given, question, accepted, budget>>
    BY DEF bridge, agent
  <2>3. /\ sess' \in SessionFields
        /\ sess'.deferred = sess.deferred /\ (sess'.queued = sess.queued \/ boot'.text = sess.queued \/ sess.queued = None)
    <3>1. CASE reply["boot"] = "error"
      BY <3>1
    <3>2. CASE reply["boot"] = "ok" /\ sess.queued # None
      <4>1. sess' = [sess EXCEPT !.started = TRUE, !.queued = None] /\ boot' = [pc |-> "send", text |-> sess.queued]
        BY <3>2
      <4> QED
        BY <4>1, Zenon DEF SessionFields, None
    <3>3. CASE reply["boot"] = "ok" /\ sess.queued = None
      BY <3>3
    <3> QED
      BY <3>1, <3>2, <3>3
  <2>4. /\ boot' \in [pc : {"start", "wait", "idle", "send", "sent", "done"}, text : Texts \cup {None}]
        /\ boot'.pc \notin {"start", "wait"}
    BY DEF Texts, OpeningPrompt
  <2>5. KeepsMessages
    BY <2>2, <2>3, NamesDiffer DEF KeepsMessages, Kept, None
  <2> QED
    BY <2>1, <2>2, <2>3, <2>4, <2>5
<1>3. CASE BootIdle
  <2> USE <1>3 DEF BootIdle
  <2> QED
    BY DEF WayInv, KeepsMessages, Kept, bridge, agent
<1>4. CASE BootSend
  <2> USE <1>4 DEF BootSend
  <2>1. cmds' \in Seq(SoundCommands)
    BY WriteIsSound, NamesDiffer DEF WayInv, Callers
  <2>2. WayInv'
    BY <2>1 DEF WayInv, agent
  <2>3. KeepsMessages
    BY DEF KeepsMessages, Kept, agent
  <2> QED
    BY <2>2, <2>3 DEF agent
<1>5. CASE BootSent
  <2> USE <1>5 DEF BootSent
  <2>1. WayInv'
    BY TakenKeeps DEF WayInv, bridge, agent
  <2>2. KeepsMessages
    BY DEF KeepsMessages, Kept, bridge, agent
  <2> QED
    BY <2>1, <2>2 DEF bridge, agent
<1> QED
  BY <1>1, <1>2, <1>3, <1>4, <1>5 DEF Boot

LEMMA MessageKeeps ==
  ASSUME ConversationInv, NEW m \in Messages, Message(m) PROVE ConversationInv' /\ KeepsMessages
<1> USE DEF ConversationInv, BudgetInv, SessionInv, SessionFields, BudgetFields, Message
<1>1. cmds' \in Seq(SoundCommands)
  BY WriteIsSound DEF WayInv, Callers, Texts
<1>2. WayInv'
  BY <1>1 DEF WayInv, agent
<1>3. /\ UNCHANGED <<boot, reader, given, question, budget>>
      /\ sess' \in SessionFields
      /\ accepted' \subseteq accepted \cup {sess'.queued, sess'.deferred}
      /\ sess'.queued = sess.queued \/ (~sess.started /\ sess'.queued = m)
      /\ sess'.deferred = sess.deferred \/ sess.deferred = None
  BY DEF agent
<1>4. KeepsMessages
  BY <1>3, NamesDiffer DEF KeepsMessages, Kept, None
<1> QED
  BY <1>2, <1>3, <1>4

LEMMA CallKeeps ==
  ASSUME ConversationInv, NEW c \in Messages \cup Answers,
         \/ c \in Messages /\ MessageSent(c)
         \/ c \in Answers /\ (Answer(c) \/ AnswerSent(c))
         \/ CallEnds(c)
  PROVE  ConversationInv' /\ KeepsMessages
<1> USE DEF ConversationInv, BudgetInv, SessionInv, SessionFields, BudgetFields
<1>1. CASE c \in Messages /\ MessageSent(c)
  <2> USE <1>1 DEF MessageSent
  <2>1. WayInv'
    BY TakenKeeps DEF WayInv, bridge, agent
  <2>2. KeepsMessages
    BY DEF KeepsMessages, Kept, bridge, agent, WayInv
  <2> QED
    BY <2>1, <2>2 DEF bridge, agent
<1>2. CASE c \in Answers /\ Answer(c)
  <2> USE <1>2 DEF Answer
  <2>1. cmds' \in Seq(SoundCommands)
    BY WriteIsSound, NamesDiffer DEF WayInv, Callers
  <2>2. WayInv'
    BY <2>1 DEF WayInv, agent
  <2>3. KeepsMessages
    BY DEF KeepsMessages, Kept, agent
  <2> QED
    BY <2>2, <2>3 DEF agent
<1>3. CASE c \in Answers /\ AnswerSent(c)
  <2> USE <1>3 DEF AnswerSent
  <2>1. WayInv'
    BY TakenKeeps DEF WayInv, bridge, agent
  <2>2. KeepsMessages
    BY DEF KeepsMessages, Kept, bridge, agent
  <2>3. sess' \in SessionFields
    <3>1. sess' = [sess EXCEPT !.pending = 0] \/ sess' = [sess EXCEPT !.busy = FALSE]
      OBVIOUS
    <3>2. sess \in SessionFields
      OBVIOUS
    <3> HIDE DEF SessionFields
    <3> QED
      BY ONLY <3>1, <3>2, FieldsChange
  <2> QED
    BY <2>1, <2>2, <2>3 DEF bridge, agent
<1>4. CASE CallEnds(c)
  <2> USE <1>4 DEF CallEnds
  <2>1. WayInv'
    BY TakenKeeps DEF WayInv, bridge, agent
  <2>2. KeepsMessages
    BY DEF KeepsMessages, Kept, bridge, agent
  <2>3. sess' \in SessionFields
    OBVIOUS
  <2>4. budget' \in BudgetFields
    BY BudgetShrinks
  <2> QED
    BY <2>1, <2>2, <2>3, <2>4 DEF bridge, agent
<1> QED
  BY <1>1, <1>2, <1>3, <1>4

-----------------------------------------------------------------------------

\* What a line that is read does to the session and the reader
LEMMA ClaimKeeps ==
  ASSUME cmds \in Seq(SoundCommands), reader = None, sess.deferred \in Messages \cup {None},
         NEW next \in SessionFields,
         next.queued = sess.queued, next.deferred = sess.deferred, Claim(next)
  PROVE  /\ cmds' \in Seq(SoundCommands)
         /\ sess' \in SessionFields
         /\ reader' \in Messages \cup {None}
         /\ sess'.queued = sess.queued /\ sess.deferred \in {sess'.deferred, reader', None}
<1>1. CASE next.deferred # None /\ next.pending = 0
  <2>1. cmds' \in Seq(SoundCommands)
    BY <1>1, WriteIsSound, NamesDiffer DEF Claim, Callers, Texts, SessionFields
  <2> QED
    BY <1>1, <2>1 DEF Claim, SessionFields
<1>2. CASE ~(next.deferred # None /\ next.pending = 0)
  BY <1>2 DEF Claim, SessionFields
<1> QED
  BY <1>1, <1>2

LEMMA ReadKeeps ==
  ASSUME ConversationInv, Read PROVE ConversationInv' /\ KeepsMessages
<1> USE DEF ConversationInv, BudgetInv, SessionInv, SessionFields, BudgetFields
<1> DEFINE line == Head(lines)
<1>1. line \in SoundLines(given) /\ lines' \in Seq(SoundLines(given))
  BY HeadTailProperties DEF Read, WayInv
<1>2. UNCHANGED <<boot, running, agent, accepted, budget>> /\ reader = None
  BY DEF Read
<1>3. /\ cmds' \in Seq(SoundCommands)
      /\ sess' \in SessionFields
      /\ reader' \in Messages \cup {None}
      /\ sess'.queued = sess.queued /\ sess.deferred \in {sess'.deferred, reader', None}
  <2>1. CASE line.kind = "response"
    BY <2>1 DEF Read, WayInv
  <2>2. CASE line.kind = "turn.start"
    BY <2>2 DEF Read, WayInv
  <2>3. CASE line.kind = "turn.end"
    BY <2>3, <1>2, ClaimKeeps DEF Read, WayInv, TurnEnd
  <2>4. CASE line.kind = "idle"
    BY <2>4, <1>2, ClaimKeeps DEF Read, WayInv, IdleStatus
  <2>5. CASE line.kind = "question"
    <3>1. line.question \in Nat
      BY <1>1 DEF SoundLines
    <3>2. QuestionOpened(line.question) /\ cmds \in Seq(SoundCommands)
      BY <2>5 DEF Read, WayInv
    <3>3. CASE Shows(0)
      BY <3>1, <3>2, <3>3 DEF QuestionOpened
    <3>4. CASE ~Shows(0)
      BY <3>1, <3>2, <3>4 DEF QuestionOpened
    <3> QED
      BY <3>3, <3>4
  <2> QED
    BY <2>1, <2>2, <2>3, <2>4, <2>5, <1>1 DEF SoundLines
<1>4. reply' \in [Callers -> {None, "ok", "error"}] /\ \A m \in Messages : reply'[m] = "ok" => m \in given
  BY <1>1 DEF Read, WayInv, SoundLines, Callers
<1>5. WayInv'
  BY <1>1, <1>2, <1>3, <1>4 DEF WayInv, agent
<1>6. KeepsMessages
  BY <1>2, <1>3, NamesDiffer DEF KeepsMessages, Kept, agent, None
<1> QED
  BY <1>2, <1>3, <1>5, <1>6 DEF agent

-----------------------------------------------------------------------------

LEMMA ExecuteKeeps ==
  ASSUME ConversationInv, Execute PROVE ConversationInv' /\ KeepsMessages
<1> USE DEF ConversationInv, BudgetInv, SessionInv, SessionFields, BudgetFields
<1> DEFINE c == Head(cmds)
<1>1. c \in SoundCommands /\ cmds' \in Seq(SoundCommands)
  BY HeadTailProperties DEF Execute, WayInv
<1>2. given \subseteq given' /\ running' = c /\ (c.by \in Messages => c.by \in given')
  BY <1>1 DEF Execute, SoundCommands
<1>3. lines' \in Seq(SoundLines(given'))
  <2>1. lines \in Seq(SoundLines(given'))
    BY <1>2, MoreIsGiven DEF WayInv
  <2>2. Line("turn.start") \in SoundLines(given')
    BY LinesAreSound
  <2>3. <<Line("turn.start")>> \in Seq(SoundLines(given')) /\ <<>> \in Seq(SoundLines(given'))
    BY <2>2
  <2> QED
    BY <2>1, <2>3, ConcatProperties DEF Execute, Reports
<1>4. WayInv'
  BY <1>1, <1>2, <1>3 DEF WayInv, Execute, service
<1>5. KeepsMessages
  BY <1>2 DEF KeepsMessages, Kept, Execute, service
<1> QED
  BY <1>4, <1>5 DEF Execute, service

LEMMA AgentKeeps ==
  ASSUME ConversationInv, Respond \/ Refuse \/ TurnEnds \/ Ask \/ Close PROVE ConversationInv' /\ KeepsMessages
<1> USE DEF ConversationInv, BudgetInv, SessionInv, SessionFields, BudgetFields
<1>1. CASE Respond
  <2> USE <1>1 DEF Respond
  <2>1. running.by \in Callers
    BY DEF WayInv, SoundCommands, Command
  <2>2. lines' \in Seq(SoundLines(given))
    BY <2>1, LinesAreSound, AppendProperties DEF WayInv
  <2>3. WayInv'
    BY <2>2, NamesDiffer DEF WayInv, service, agent, NoCommand
  <2> QED
    BY <2>3 DEF KeepsMessages, Kept, service, agent
<1>2. CASE Refuse
  <2> USE <1>2 DEF Refuse
  <2>1. Head(cmds).by \in Callers /\ cmds' \in Seq(SoundCommands)
    BY HeadTailProperties DEF WayInv, SoundCommands, Command
  <2>2. lines' \in Seq(SoundLines(given))
    BY <2>1, LinesAreSound, AppendProperties DEF WayInv
  <2>3. WayInv'
    BY <2>1, <2>2 DEF WayInv, service, agent
  <2>4. KeepsMessages
    BY DEF KeepsMessages, Kept, service, agent
  <2>5. budget' \in BudgetFields
    BY BudgetShrinks
  <2> QED
    BY <2>3, <2>4, <2>5 DEF service, agent
<1>3. CASE TurnEnds
  <2> USE <1>3 DEF TurnEnds
  <2>1. Line("turn.end") \in SoundLines(given) /\ Line("turn.start") \in SoundLines(given)
        /\ Line("idle") \in SoundLines(given)
    BY LinesAreSound
  <2>2. /\ <<Line("turn.end"), Line("turn.start")>> \in Seq(SoundLines(given))
        /\ <<Line("turn.end"), Line("idle")>> \in Seq(SoundLines(given)) /\ <<>> \in Seq(SoundLines(given))
    BY <2>1
  <2>3. lines' \in Seq(SoundLines(given))
    <3>1. Reports(<<Line("turn.end"), Line("turn.start")>>) \in Seq(SoundLines(given))
          /\ Reports(<<Line("turn.end"), Line("idle")>>) \in Seq(SoundLines(given))
      BY <2>2 DEF Reports
    <3>2. \E r \in Seq(SoundLines(given)) : lines' = lines \o r
      BY <3>1
    <3> QED
      BY <3>2, ConcatProperties DEF WayInv
  <2>4. WayInv'
    BY <2>3 DEF WayInv, service
  <2> QED
    BY <2>4 DEF KeepsMessages, Kept, service
<1>4. CASE Ask
  <2> USE <1>4 DEF Ask
  <2>1. Question(budget.questions) \in SoundLines(given)
    BY LinesAreSound
  <2>2. <<Question(budget.questions)>> \in Seq(SoundLines(given)) /\ <<>> \in Seq(SoundLines(given))
    BY <2>1
  <2>3. lines' \in Seq(SoundLines(given))
    BY <2>2, ConcatProperties DEF WayInv, Reports
  <2>4. WayInv'
    BY <2>3 DEF WayInv, service
  <2>5. KeepsMessages
    BY DEF KeepsMessages, Kept, service
  <2>6. budget' \in BudgetFields
    BY BudgetShrinks
  <2> QED
    BY <2>4, <2>5, <2>6 DEF service
<1>5. CASE Close
  BY <1>5 DEF Close, WayInv, KeepsMessages, Kept, bridge, agent
<1> QED
  BY <1>1, <1>2, <1>3, <1>4, <1>5

LEMMA ConversationNext ==
  ConversationInv /\ [Next]_vars => ConversationInv' /\ [KeepsMessages]_vars
<1> SUFFICES ASSUME ConversationInv, [Next]_vars PROVE ConversationInv' /\ [KeepsMessages]_vars
  OBVIOUS
<1>1. CASE UNCHANGED vars
  BY <1>1 DEF vars, service, bridge, agent, ConversationInv, BudgetInv, SessionInv, WayInv
<1>2. CASE Next
  BY <1>2, BootKeeps, MessageKeeps, CallKeeps, ReadKeeps, ExecuteKeeps, AgentKeeps DEF Next
<1> QED
  BY <1>1, <1>2

\* A message that was accepted is with the session, with the goroutine that starts it or with the
\* reader, or was given to the agent; only a later message, queued in its place before the session
\* is started, drops it (Message, initializeRuntimeSession, takeDeferredPromptLocked).
THEOREM MessagesKept == Spec => MessagesAreKept
<1>1. ConversationInv /\ [Next]_vars => ConversationInv' /\ [KeepsMessages]_vars
  BY ConversationNext
<1>2. [KeepsMessages]_vars =>
        [\A m \in Messages :
           /\ m \in accepted' \ accepted => Kept(m)'
           /\ Kept(m) /\ ~Kept(m)' => sess.queued = m /\ ~sess.started /\ sess.queued' \in Messages]_vars
  BY DEF KeepsMessages
<1> QED
  BY <1>1, <1>2, InitConversation, PTL DEF Spec, MessagesAreKept
=============================================================================
