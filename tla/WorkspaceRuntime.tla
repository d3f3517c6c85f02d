-------------------------- MODULE WorkspaceRuntime --------------------------
(***************************************************************************)
(* The Bridge that the mode sessions of one assistant workspace share       *)
(* (service/interactive.go).  The first session starts it, sessions that    *)
(* come while it starts wait for it, later ones join it, and the last one   *)
(* to close takes it down.  startWorkspaceRuntime runs in a goroutine per   *)
(* session, closeSessionAtDeadline and Commit in whoever calls them, and    *)
(* the exit of the Bridge is an event that is routed to the sessions.       *)
(*                                                                          *)
(* A session starts at most one Bridge, so the entry of workspaceRuntimes   *)
(* and the Bridge in it are named by the session that started them.         *)
(* Idle sessions expire unless the page that shows them touches them        *)
(* (TouchSession): an expiry is a close that may happen or not.             *)
(***************************************************************************)
EXTENDS Integers, FiniteSets

CONSTANTS
  Sessions,    \* mode sessions of the workspace
  Allowances   \* what a behaviour may use: the sessions; those that a user closes or that expire;
               \* those whose draft is committed by Commit (profile mode); how many starts and
               \* commands the Bridge refuses; how many Bridges exit by themselves

ASSUME WorkspaceAssumption ==
  /\ "none" \notin Sessions
  /\ Allowances \subseteq [sessions : SUBSET Sessions, closers : SUBSET Sessions,
                        committers : SUBSET Sessions, failures : Nat, exits : Nat]

VARIABLES
  cur,      \* workspaceRuntimes[workspace]: the session that started the entry, or NoSession
  shared,   \* starter -> the entry: its sessions, whether it has a runtime, whether ready is closed
  pod,      \* starter -> its Bridge process
  exit,     \* starter -> the event of the exit of its Bridge
  modes,    \* session -> its fields
  start,    \* session -> its goroutine startWorkspaceRuntime
  closer,   \* session -> what is left to do of its close
  allowance \* what is left of it

workspaceVars == <<cur, shared, pod, exit, modes, start, closer, allowance>>

NoSession == "none"

\* What is left is one of the allowances, less what was used.
WithinAllowance ==
  \E b \in Allowances : \E x \in 0..b.failures, y \in 0..b.exits :
    allowance = [b EXCEPT !.failures = x, !.exits = y]

WorkspaceTypeOK ==
  /\ cur \in Sessions \cup {NoSession}
  /\ shared \in [Sessions -> [members : SUBSET Sessions, rt : BOOLEAN, ready : BOOLEAN]]
  /\ pod \in [Sessions -> {"none", "live", "dead"}]
  /\ exit \in [Sessions -> [pc : {"none", "emitted", "routing"}, to : SUBSET Sessions]]
  /\ modes \in [Sessions -> [closed : BOOLEAN, rt : Sessions \cup {NoSession}, started : BOOLEAN,
                            exitPending : BOOLEAN, committing : BOOLEAN]]
  /\ start \in [Sessions -> [pc : {"none", "begin", "wait", "create", "start", "attach", "fail",
                                   "discard", "init", "inited", "opening", "error", "done",
                                   "late", "gaveUp"},
                             on : Sessions \cup {NoSession}]]
  /\ closer \in [Sessions -> [pc : {"no", "marked", "kill", "done"}, kill : Sessions \cup {NoSession}]]
  /\ WithinAllowance

WorkspaceInit ==
  /\ cur = NoSession
  /\ shared = [g \in Sessions |-> [members |-> {}, rt |-> FALSE, ready |-> FALSE]]
  /\ pod = [g \in Sessions |-> "none"]
  /\ exit = [g \in Sessions |-> [pc |-> "none", to |-> {}]]
  /\ modes = [s \in Sessions |-> [closed |-> FALSE, rt |-> NoSession, started |-> FALSE,
                                 exitPending |-> FALSE, committing |-> FALSE]]
  /\ start = [s \in Sessions |-> [pc |-> "none", on |-> NoSession]]
  /\ closer = [s \in Sessions |-> [pc |-> "no", kill |-> NoSession]]
  /\ allowance \in Allowances

Goto(s, pc, g) == start' = [start EXCEPT ![s] = [pc |-> pc, on |-> g]]
NoFault == UNCHANGED allowance
Refused == allowance.failures > 0 /\ allowance' = [allowance EXCEPT !.failures = @ - 1]

\* The process of Bridge g ends; the goroutine that waits for it emits runtime.exit.
Down(g) ==
  IF pod[g] = "live"
  THEN pod' = [pod EXCEPT ![g] = "dead"] /\ exit' = [exit EXCEPT ![g].pc = "emitted"]
  ELSE UNCHANGED <<pod, exit>>

\* What closing does under the session's lock, unless it is closed.
Mark(s) ==
  IF modes[s].closed THEN UNCHANGED <<modes, closer>>
  ELSE /\ modes' = [modes EXCEPT ![s].closed = TRUE, ![s].rt = NoSession]
       /\ closer' = [closer EXCEPT ![s].pc = "marked"]

\* closeSession(id, false): a session that is committing is left open.
CloseSession(s) == IF modes[s].committing THEN UNCHANGED <<modes, closer>> ELSE Mark(s)

-----------------------------------------------------------------------------
(* startWorkspaceRuntime                                                     *)

Create(s) ==
  /\ s \in allowance.sessions /\ start[s].pc = "none" /\ Goto(s, "begin", NoSession)
  /\ UNCHANGED <<cur, shared, pod, exit, modes, closer, allowance>>

\* The session takes the runtime of entry g and is one of its sessions.
Join(s, g) ==
  /\ shared' = [shared EXCEPT ![g].members = @ \cup {s}]
  /\ modes' = [modes EXCEPT ![s].rt = g]
  /\ Goto(s, "init", g)

Begin(s) ==
  /\ start[s].pc = "begin"
  /\ \/ cur = NoSession /\ Goto(s, "create", NoSession) /\ UNCHANGED <<shared, modes>>
     \/ cur # NoSession /\ ~shared[cur].rt /\ Goto(s, "wait", cur) /\ UNCHANGED <<shared, modes>>
     \/ /\ cur # NoSession /\ shared[cur].rt /\ modes[s].closed
        /\ Goto(s, "done", NoSession) /\ UNCHANGED <<shared, modes>>
     \/ cur # NoSession /\ shared[cur].rt /\ ~modes[s].closed /\ Join(s, cur)
  /\ UNCHANGED <<cur, pod, exit, closer, allowance>>

\* After ready: the entry is looked up again.  It may be gone, or be a later one
\* that is starting, which has neither a runtime nor an error: the session gives up.
\* It is entered before it is known to be open: one that was closed comes late.
Woken(s) ==
  /\ start[s].pc = "wait" /\ shared[start[s].on].ready
  /\ \/ cur = NoSession /\ Goto(s, "begin", NoSession) /\ UNCHANGED <<shared, modes>>
     \/ cur # NoSession /\ ~shared[cur].rt /\ Goto(s, "gaveUp", NoSession) /\ UNCHANGED <<shared, modes>>
     \/ /\ cur # NoSession /\ shared[cur].rt /\ modes[s].closed /\ Goto(s, "late", cur)
        /\ shared' = [shared EXCEPT ![cur].members = @ \cup {s}] /\ UNCHANGED modes
     \/ cur # NoSession /\ shared[cur].rt /\ ~modes[s].closed /\ Join(s, cur)
  /\ UNCHANGED <<cur, pod, exit, closer, allowance>>

NewEntry(s) ==
  /\ start[s].pc = "create"
  /\ \/ cur # NoSession /\ Goto(s, "begin", NoSession) /\ UNCHANGED <<cur, shared>>
     \/ /\ cur = NoSession /\ cur' = s /\ Goto(s, "start", s)
        /\ shared' = [shared EXCEPT ![s].members = {s}]
  /\ UNCHANGED <<pod, exit, modes, closer, allowance>>

\* factory.StartSession
StartReturns(s) ==
  /\ start[s].pc = "start"
  /\ \/ Goto(s, "attach", s) /\ pod' = [pod EXCEPT ![s] = "live"] /\ NoFault
     \/ Goto(s, "fail", s) /\ UNCHANGED pod /\ Refused
     \/ /\ \E t \in Sessions : closer[t].kill = s /\ closer[t].pc = "done"
        /\ Goto(s, "fail", s) /\ UNCHANGED pod /\ NoFault
  /\ UNCHANGED <<cur, shared, exit, modes, closer>>

\* Mutant: ready is not closed when the start fails.
StartFailedQuietly(s) ==
  /\ start[s].pc = "fail" /\ Goto(s, "error", s)
  /\ IF cur = s THEN cur' = NoSession ELSE UNCHANGED cur
  /\ UNCHANGED <<shared, pod, exit, modes, closer, allowance>>

StartFailed(s) ==
  /\ start[s].pc = "fail" /\ Goto(s, "error", s)
  /\ IF cur = s THEN cur' = NoSession /\ shared' = [shared EXCEPT ![s].ready = TRUE]
                ELSE UNCHANGED <<cur, shared>>
  /\ UNCHANGED <<pod, exit, modes, closer, allowance>>

\* Mutant: the entry is not compared with the workspace's.
AttachAnyway(s) ==
  /\ start[s].pc = "attach"
  /\ shared' = [shared EXCEPT ![s].rt = TRUE, ![s].ready = TRUE]
  /\ IF modes[s].closed THEN Goto(s, "done", s) /\ UNCHANGED modes
     ELSE modes' = [modes EXCEPT ![s].rt = s] /\ Goto(s, "init", s)
  /\ UNCHANGED <<cur, pod, exit, closer, allowance>>

Attach(s) ==
  /\ start[s].pc = "attach"
  /\ IF cur # s \/ modes[s].closed THEN Goto(s, "discard", s) /\ UNCHANGED <<shared, modes>>
     ELSE /\ shared' = [shared EXCEPT ![s].rt = TRUE, ![s].ready = TRUE]
          /\ modes' = [modes EXCEPT ![s].rt = s] /\ Goto(s, "init", s)
  /\ UNCHANGED <<cur, pod, exit, closer, allowance>>

Discard(s) ==
  /\ start[s].pc = "discard" /\ Goto(s, "done", s) /\ Down(s)
  /\ UNCHANGED <<cur, shared, modes, closer, allowance>>

\* initializeRuntimeSession: session/start.
SessionStart(s) ==
  /\ start[s].pc = "init"
  /\ \/ pod[start[s].on] = "live" /\ Goto(s, "inited", start[s].on) /\ NoFault
     \/ pod[start[s].on] = "dead" /\ Goto(s, "error", start[s].on) /\ NoFault
     \/ pod[start[s].on] = "live" /\ Goto(s, "error", start[s].on) /\ Refused
  /\ UNCHANGED <<cur, shared, pod, exit, modes, closer>>

Started(s) ==
  /\ start[s].pc = "inited"
  /\ IF modes[s].closed THEN Goto(s, "done", NoSession) /\ UNCHANGED modes
     ELSE modes' = [modes EXCEPT ![s].started = TRUE] /\ Goto(s, "opening", start[s].on)
  /\ UNCHANGED <<cur, shared, pod, exit, closer, allowance>>

\* The first message is sent if the user has left one.
Opening(s) ==
  /\ start[s].pc = "opening"
  /\ \/ Goto(s, "done", NoSession) /\ NoFault
     \/ pod[start[s].on] = "dead" /\ ~modes[s].closed /\ Goto(s, "error", start[s].on) /\ NoFault
     \/ ~modes[s].closed /\ Goto(s, "error", start[s].on) /\ Refused
  /\ UNCHANGED <<cur, shared, pod, exit, modes, closer>>

\* The event session.error closes the session.
Error(s) ==
  /\ start[s].pc = "error" /\ Goto(s, "done", NoSession) /\ CloseSession(s)
  /\ UNCHANGED <<cur, shared, pod, exit, allowance>>

StartStep(s) ==
  \/ Begin(s) \/ Woken(s) \/ NewEntry(s) \/ StartReturns(s) \/ StartFailed(s) \/ Attach(s)
  \/ Discard(s) \/ SessionStart(s) \/ Started(s) \/ Opening(s) \/ Error(s)

-----------------------------------------------------------------------------
(* Closing and committing                                                    *)

\* Close, CloseAssistantWorkspace, expireIfDue
UserClose(s) ==
  /\ s \in allowance.closers /\ start[s].pc # "none"
  /\ ~modes[s].committing /\ ~modes[s].closed /\ Mark(s)
  /\ UNCHANGED <<cur, shared, pod, exit, start, allowance>>

\* The session leaves the entry; the last one takes the entry with it.
Leave(s) ==
  /\ closer[s].pc = "marked"
  /\ LET left == shared[cur].members \ {s} IN
     IF cur = NoSession THEN closer' = [closer EXCEPT ![s].pc = "done"] /\ UNCHANGED <<cur, shared>>
     ELSE /\ shared' = [shared EXCEPT ![cur].members = left]
          /\ IF left = {} THEN cur' = NoSession /\ closer' = [closer EXCEPT ![s] = [pc |-> "kill", kill |-> cur]]
                          ELSE UNCHANGED cur /\ closer' = [closer EXCEPT ![s].pc = "done"]
  /\ UNCHANGED <<pod, exit, modes, start, allowance>>

\* sharedRuntime.Close and sharedCancel, or at the end of Commit runtime.Close
Kill(s) ==
  /\ closer[s].pc = "kill" /\ closer' = [closer EXCEPT ![s].pc = "done"] /\ Down(closer[s].kill)
  /\ UNCHANGED <<cur, shared, modes, start, allowance>>

\* Commit and, for the other modes, CommitAssistant; the draft was staged by the runtime.
CommitBegins(s) ==
  /\ s \in allowance.committers /\ modes[s].started /\ ~modes[s].closed /\ ~modes[s].committing
  /\ modes' = [modes EXCEPT ![s].committing = TRUE]
  /\ UNCHANGED <<cur, shared, pod, exit, start, closer, allowance>>

\* Committed: the session closes itself and its runtime, and leaves the entry as it is.
CommitEnds(s) ==
  /\ modes[s].committing
  /\ \/ modes' = [modes EXCEPT ![s].committing = FALSE] /\ UNCHANGED closer
     \/ /\ modes' = [modes EXCEPT ![s].committing = FALSE, ![s].closed = TRUE, ![s].rt = NoSession]
        /\ closer' = [closer EXCEPT ![s] = [pc |-> "kill", kill |-> modes[s].rt]]
  /\ UNCHANGED <<cur, shared, pod, exit, start, allowance>>

-----------------------------------------------------------------------------
(* The exit of a Bridge                                                      *)

PodExits(g) ==
  /\ pod[g] = "live" /\ allowance.exits > 0 /\ allowance' = [allowance EXCEPT !.exits = @ - 1] /\ Down(g)
  /\ UNCHANGED <<cur, shared, modes, start, closer>>

\* Mutant: the exit is routed to nobody.
RouteNone(g) ==
  /\ exit[g].pc = "emitted" /\ exit' = [exit EXCEPT ![g] = [pc |-> "routing", to |-> {}]]
  /\ UNCHANGED <<cur, shared, pod, modes, start, closer, allowance>>

\* routeWorkspaceRuntimeEvent: to the sessions of the entry the workspace has now.
Route(g) ==
  /\ exit[g].pc = "emitted"
  /\ exit' = [exit EXCEPT ![g] = [pc |-> "routing", to |-> IF cur = NoSession THEN {g} ELSE shared[cur].members]]
  /\ UNCHANGED <<cur, shared, pod, modes, start, closer, allowance>>

\* runtimeEvent: a session that has not started only keeps the event, which
\* initializeRuntimeSession does not look at.  An exit with a diagnosis closes the
\* session, one without expires it, which is tried again while it is committing.
Deliver(g, s) ==
  /\ s \in exit[g].to
  /\ \/ /\ modes[s].closed \/ ~modes[s].committing \/ ~modes[s].started
        /\ IF modes[s].closed \/ modes[s].started THEN Mark(s)
           ELSE modes' = [modes EXCEPT ![s].exitPending = TRUE] /\ UNCHANGED closer
     \/ ~modes[s].closed /\ modes[s].started /\ modes[s].committing /\ UNCHANGED <<modes, closer>>
  /\ exit' = [exit EXCEPT ![g].to = @ \ {s}]
  /\ UNCHANGED <<cur, shared, pod, start, allowance>>

WorkspaceNext ==
  \E s \in Sessions :
    \/ Create(s) \/ StartStep(s) \/ UserClose(s) \/ Leave(s) \/ Kill(s)
    \/ CommitBegins(s) \/ CommitEnds(s) \/ PodExits(s) \/ Route(s)
    \/ \E t \in Sessions : Deliver(s, t)

\* The goroutines that start sessions run, and the events of exits are delivered.
WorkspaceFairness ==
  \A s \in Sessions : /\ WF_workspaceVars(StartStep(s))
                      /\ WF_workspaceVars(Route(s) \/ \E t \in Sessions : Deliver(s, t))

WorkspaceSpec == WorkspaceInit /\ [][WorkspaceNext]_workspaceVars
WorkspaceLiveSpec == WorkspaceSpec /\ WorkspaceFairness

-----------------------------------------------------------------------------
(* Properties                                                                *)

\* A session of the entry that is open, or about to leave it
Uses(s, g) == s \in shared[g].members /\ (~modes[s].closed \/ closer[s].pc = "marked")

\* A session that is about to close Bridge g
Closes(s, g) == closer[s].pc = "kill" /\ closer[s].kill = g

\* A session that was entered when it had been closed
CameLate(s, g) == s \in shared[g].members /\ start[s] = [pc |-> "late", on |-> g]

\* A Bridge that runs is the one the workspace has, and a session that uses it
\* will close it as the last; or somebody is about to close it, or the goroutine
\* that started it has yet to look.  The one exception is a Bridge whose entry a
\* session came to late: whoever leaves after that is never the last.
LiveBridgeIsOwned ==
  \A g \in Sessions : pod[g] = "live" =>
    \/ cur = g /\ \E s \in Sessions : Uses(s, g) \/ CameLate(s, g)
    \/ start[g].pc \in {"attach", "discard"}
    \/ \E s \in Sessions : Closes(s, g)

\* A session that has a runtime is open and is one of the sessions of the
\* workspace's entry, so that the last one to close is the one that closes it.
HeldBridgeIsCurrent ==
  \A s \in Sessions : modes[s].rt # NoSession =>
    /\ ~modes[s].closed /\ cur = modes[s].rt /\ shared[cur].rt /\ s \in shared[cur].members

\* "Closing one mode must not tear down the Pod used by the other modes": a
\* Bridge that is to be closed is used by no session.  (Commit closes the Bridge
\* of its session whoever uses it.)
BridgeServesOpenModes ==
  \A s, t \in Sessions :
    closer[s].pc = "kill" /\ s \notin allowance.committers => modes[t].rt # closer[s].kill

\* Every Bridge is accounted for: one that runs has who will close it, one that a session
\* holds is the workspace's, and one that is to be closed serves nobody
\* (startWorkspaceRuntime, closeSessionAtDeadline, Commit).
BridgeIsAccountedFor ==
  WorkspaceTypeOK /\ LiveBridgeIsOwned /\ HeldBridgeIsCurrent /\ BridgeServesOpenModes

\* The session was forgotten: the one whose start it waits for was closed, and its
\* goroutine ended without closing ready; or, once ready was closed, it found the
\* entry of a later start, and gave up.
Forgotten(s) ==
  \/ /\ start[s].pc = "wait" /\ start[s].on \in allowance.closers /\ modes[start[s].on].closed
     /\ ~shared[start[s].on].ready /\ start[start[s].on].pc = "done"
  \/ start[s].pc = "gaveUp"

\* A session that was created is started in a Bridge or is closed, or forgotten
\* in one of the two ways above and in no other.
EverySessionIsServed ==
  \A s \in Sessions : (start[s].pc = "begin") ~> (modes[s].started \/ modes[s].closed \/ Forgotten(s))

HoldsDead(s) == modes[s].rt # NoSession /\ pod[modes[s].rt] = "dead"

\* A session does not keep a Bridge that has exited, but for one that the exit
\* reached before it was started, or while it was committing.
DeadBridgeIsNoticedOrPending ==
  \A s \in Sessions : HoldsDead(s) ~> (~HoldsDead(s) \/ modes[s].exitPending \/ s \in allowance.committers)
=============================================================================
