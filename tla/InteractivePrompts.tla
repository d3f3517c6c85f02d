------------------------- MODULE InteractivePrompts -------------------------
(***************************************************************************)
(* The conversation of one interactive session (service/interactive.go):    *)
(* messages and answers of the user, the goroutine that starts the session, *)
(* and the one goroutine that reads the standard output of the Bridge,      *)
(* where the responses to commands and the events of the agent come in one  *)
(* sequence of lines (execRuntime.read).  A command is written to the       *)
(* Bridge and its caller waits until the reader has met the response, or    *)
(* until its own context ends.                                              *)
(*                                                                          *)
(* The Bridge (runtime-dsh) executes commands one by one.  session/start    *)
(* sets the agent going with a turn of its own, the startup turn, that      *)
(* carries no prompt; after it the agent works off its prompts, one turn    *)
(* each, and reports that it is idle when none is left.                     *)
(*                                                                          *)
(* At any point the session may be closed (by the user, by its lease, by a  *)
(* turn that ends with an error), after which every command fails and the   *)
(* session takes nothing more: closed is the end of the model.              *)
(***************************************************************************)
EXTENDS Integers, Sequences, FiniteSets

CONSTANTS
  Messages,     \* messages the user sends, each with one call of Message
  Answers,      \* answers the user sends, each with one call of Answer
  Budgets       \* what a behaviour may use: the messages and answers; the kind of session: one of
                \* a workspace, or one of its own whose intent has an opening (guided) or none
                \* (plain); how many questions the agent asks; how many commands the Bridge answers
                \* with an error; how many calls end with their context

ASSUME PromptAssumption ==
  /\ {"boot", "reader", "auto", "start", "none"} \cap (Messages \cup Answers) = {} /\ Messages \cap Answers = {}
  /\ Budgets \subseteq [messages : SUBSET Messages, answers : SUBSET Answers, kind : {"workspace", "guided", "plain"},
                        questions : Nat, refused : Nat, ended : Nat]

VARIABLES
  sess,      \* the session; pending is the question it shows, or 0
  boot,      \* the goroutine that starts it: [pc, text]
  call,      \* message or answer -> where its call is
  reader,    \* the reader: the message it is sending, or None
  cmds,      \* commands written to the Bridge
  running,   \* the command the Bridge executes, or None
  lines,     \* what the Bridge has written and the reader not read
  heard,     \* whether the Bridge forwards the events of the agent
  reply,     \* caller -> the response the reader has met for it
  turn,      \* the agent: the prompt its turn works on, StartupTurn, or None
  question,  \* the question its turn waits with, or 0
  backlog,   \* prompts whose turn has not begun
  accepted,  \* messages that Message has taken
  given,     \* prompts the agent has been given
  budget     \* what is left of the budget

service == <<sess, boot, call, reader, reply, accepted>>
agent   == <<turn, question, backlog, given>>
bridge  == <<cmds, running, heard, agent>>
vars    == <<service, bridge, lines, budget>>

None == "none"
OpeningPrompt == "auto"
StartupTurn == "start"
Callers == {"boot", "reader"} \cup Messages \cup Answers
Texts == Messages \cup {OpeningPrompt}
Command == [by : Callers, kind : {"start", "prompt", "answer"}, text : Texts \cup {None}, question : Nat]
NoCommand == [by |-> "boot", kind |-> None, text |-> None, question |-> 0]

\* What is left is what a budget allows, less what was used.
WithinBudget ==
  \E b \in Budgets : \E x \in 0..b.questions, y \in 0..b.refused, z \in 0..b.ended :
    budget = [b EXCEPT !.questions = x, !.refused = y, !.ended = z]

TypeOK ==
  /\ sess \in [busy : BOOLEAN, opening : BOOLEAN, queued : Messages \cup {None},
               deferred : Messages \cup {None}, started : BOOLEAN, pending : Nat, closed : BOOLEAN]
  /\ boot.pc \in {"start", "wait", "idle", "send", "sent", "done"} /\ boot.text \in Texts \cup {None}
  /\ call \in [Messages \cup Answers -> {"new", "sent", "done", "refused", "ended"}]
  /\ reader \in Messages \cup {None}
  /\ \A i \in DOMAIN cmds : cmds[i] \in Command
  /\ running \in Command \cup {NoCommand} /\ heard \in BOOLEAN
  /\ reply \in [Callers -> {None, "ok", "error"}]
  /\ turn \in Texts \cup {StartupTurn, None} /\ question \in Nat /\ backlog \in Seq(Texts)
  /\ accepted \subseteq Messages /\ given \subseteq Texts
  /\ WithinBudget

\* session/start is about to be sent (or the runtime is still coming up).  The Bridge of a session
\* of its own has subscribed to the agent before it takes a command.
Init ==
  /\ sess = [busy |-> FALSE, opening |-> FALSE, queued |-> None, deferred |-> None,
             started |-> FALSE, pending |-> 0, closed |-> FALSE]
  /\ boot = [pc |-> "start", text |-> None] /\ call = [m \in Messages \cup Answers |-> "new"]
  /\ reader = None /\ cmds = <<>> /\ running = NoCommand /\ lines = <<>>
  /\ reply = [c \in Callers |-> None]
  /\ turn = None /\ question = 0 /\ backlog = <<>>
  /\ accepted = {} /\ given = {} /\ budget \in Budgets /\ heard = (budget.kind # "workspace")

\* execRuntime.Command: the request is written; the caller waits for its response.
Write(c, kind, text, q) == cmds' = Append(cmds, [by |-> c, kind |-> kind, text |-> text, question |-> q])
Answered(c) == reply[c] # None
Waits(c) == c \in {"boot", "reader"} \/ call[c] = "sent"
Taken(c) == reply' = [reply EXCEPT ![c] = None]

Open == ~sess.closed

-----------------------------------------------------------------------------
(* startStandaloneRuntime, initializeRuntimeSession                          *)

BootStart ==
  /\ Open /\ boot.pc = "start" /\ boot' = [boot EXCEPT !.pc = "wait"] /\ Write("boot", "start", None, 0)
  /\ UNCHANGED <<sess, call, reader, reply, accepted, running, heard, agent, lines, budget>>

\* Mutant: the session opens the conversation whether a message is queued or not.
BootStartedDrops ==
  /\ Open /\ boot.pc = "wait" /\ Answered("boot") /\ Taken("boot")
  /\ sess' = [sess EXCEPT !.started = TRUE, !.queued = None, !.busy = TRUE, !.opening = TRUE]
  /\ boot' = [pc |-> "send", text |-> OpeningPrompt]
  /\ UNCHANGED <<call, reader, accepted, bridge, lines, budget>>

\* Under the lock that makes runtimeStarted visible the queued message is taken; without one a
\* session with an opening opens the conversation, and one without has nothing more to do.
BootStarted ==
  /\ Open /\ boot.pc = "wait" /\ Answered("boot") /\ Taken("boot")
  /\ \/ reply["boot"] = "error" /\ sess' = [sess EXCEPT !.closed = TRUE] /\ boot' = [boot EXCEPT !.pc = "done"]
     \/ /\ reply["boot"] = "ok" /\ sess.queued # None
        /\ sess' = [sess EXCEPT !.started = TRUE, !.queued = None]
        /\ boot' = [pc |-> "send", text |-> sess.queued]
     \/ /\ reply["boot"] = "ok" /\ sess.queued = None /\ budget.kind = "guided"
        /\ sess' = [sess EXCEPT !.started = TRUE, !.busy = TRUE, !.opening = TRUE]
        /\ boot' = [pc |-> "send", text |-> OpeningPrompt]
     \/ /\ reply["boot"] = "ok" /\ sess.queued = None /\ budget.kind # "guided"
        /\ sess' = [sess EXCEPT !.started = TRUE]
        /\ boot' = [boot EXCEPT !.pc = IF budget.kind = "workspace" THEN "idle" ELSE "done"]
  /\ UNCHANGED <<call, reader, accepted, bridge, lines, budget>>

\* A workspace session without a message, once its status has been saved.
BootIdle ==
  /\ Open /\ boot.pc = "idle" /\ boot' = [boot EXCEPT !.pc = "done"]
  /\ sess' = [sess EXCEPT !.busy = FALSE]
  /\ UNCHANGED <<call, reader, reply, accepted, bridge, lines, budget>>

BootSend ==
  /\ Open /\ boot.pc = "send" /\ boot' = [boot EXCEPT !.pc = "sent"] /\ Write("boot", "prompt", boot.text, 0)
  /\ UNCHANGED <<sess, call, reader, reply, accepted, running, heard, agent, lines, budget>>

\* A prompt that is refused ends the session (session.error).
BootSent ==
  /\ Open /\ boot.pc = "sent" /\ Answered("boot") /\ Taken("boot") /\ boot' = [boot EXCEPT !.pc = "done"]
  /\ sess' = [sess EXCEPT !.closed = (reply["boot"] = "error")]
  /\ UNCHANGED <<call, reader, accepted, bridge, lines, budget>>

Boot == BootStart \/ BootStarted \/ BootIdle \/ BootSend \/ BootSent

-----------------------------------------------------------------------------
(* Message and Answer                                                        *)

Busy == sess.busy
Shows(q) == sess.pending = q

\* A message while the automatic opening runs is kept until that turn ends; one before the
\* session is started waits for the start, in place of an earlier one.
Message(m) ==
  /\ Open /\ m \in budget.messages /\ call[m] = "new" /\ Shows(0)
  /\ \/ /\ Busy /\ sess.opening /\ sess.deferred = None
        /\ sess' = [sess EXCEPT !.deferred = m] /\ accepted' = accepted \cup {m}
        /\ call' = [call EXCEPT ![m] = "done"] /\ UNCHANGED cmds
     \/ /\ ~Busy /\ ~sess.started
        /\ sess' = [sess EXCEPT !.busy = TRUE, !.queued = m] /\ accepted' = accepted \cup {m}
        /\ call' = [call EXCEPT ![m] = "done"] /\ UNCHANGED cmds
     \/ /\ ~Busy /\ sess.started
        /\ sess' = [sess EXCEPT !.busy = TRUE] /\ Write(m, "prompt", m, 0)
        /\ call' = [call EXCEPT ![m] = "sent"] /\ UNCHANGED accepted
  /\ UNCHANGED <<boot, reader, reply, running, heard, agent, lines, budget>>

\* Mutant: a refused message leaves the session busy.
MessageSentBusy(m) ==
  /\ Open /\ call[m] = "sent" /\ Answered(m) /\ Taken(m) /\ call' = [call EXCEPT ![m] = "done"]
  /\ accepted' = IF reply[m] = "ok" THEN accepted \cup {m} ELSE accepted
  /\ UNCHANGED <<sess, boot, reader, bridge, lines, budget>>

MessageSent(m) ==
  /\ Open /\ call[m] = "sent" /\ Answered(m) /\ Taken(m)
  /\ \/ /\ reply[m] = "ok" /\ call' = [call EXCEPT ![m] = "done"]
        /\ accepted' = accepted \cup {m} /\ UNCHANGED sess
     \/ /\ reply[m] = "error" /\ call' = [call EXCEPT ![m] = "refused"]
        /\ sess' = [sess EXCEPT !.busy = FALSE] /\ UNCHANGED accepted
  /\ UNCHANGED <<boot, reader, bridge, lines, budget>>

Answer(a) ==
  /\ Open /\ a \in budget.answers /\ call[a] = "new" /\ ~Shows(0) /\ ~Busy
  /\ sess' = [sess EXCEPT !.busy = TRUE] /\ Write(a, "answer", None, sess.pending)
  /\ call' = [call EXCEPT ![a] = "sent"]
  /\ UNCHANGED <<boot, reader, reply, accepted, running, heard, agent, lines, budget>>

\* Mutant: an answer that was taken frees the session.
AnswerSentFree(a) ==
  /\ Open /\ call[a] = "sent" /\ Answered(a) /\ Taken(a) /\ call' = [call EXCEPT ![a] = "done"]
  /\ sess' = [sess EXCEPT !.pending = IF reply[a] = "ok" THEN 0 ELSE @, !.busy = FALSE]
  /\ UNCHANGED <<boot, reader, accepted, bridge, lines, budget>>

\* The question is closed after the response, in the caller.
AnswerSent(a) ==
  /\ Open /\ call[a] = "sent" /\ Answered(a) /\ Taken(a)
  /\ \/ /\ reply[a] = "ok" /\ call' = [call EXCEPT ![a] = "done"]
        /\ sess' = [sess EXCEPT !.pending = 0]
     \/ /\ reply[a] = "error" /\ call' = [call EXCEPT ![a] = "refused"]
        /\ sess' = [sess EXCEPT !.busy = FALSE]
  /\ UNCHANGED <<boot, reader, accepted, bridge, lines, budget>>

\* The context of a call of Message or Answer ends while it waits: the session is freed and the
\* question stays, whatever becomes of the command.
CallEnds(c) ==
  /\ Open /\ call[c] = "sent" /\ budget.ended > 0 /\ budget' = [budget EXCEPT !.ended = @ - 1]
  /\ call' = [call EXCEPT ![c] = "ended"] /\ sess' = [sess EXCEPT !.busy = FALSE] /\ Taken(c)
  /\ UNCHANGED <<boot, reader, accepted, bridge, lines>>

-----------------------------------------------------------------------------
(* The reader: execRuntime.read, runtimeEvent                                *)

\* takeDeferredPromptLocked after the turn has freed the session: the message is
\* claimed, and the reader itself sends it (sendClaimedDeferredPrompt) and waits in
\* Command for a line that nobody reads any more.  What follows Command is not reached
\* before the session is closed, so it has no action; and a message is only deferred
\* in a session that is started, so that it never goes back to the queue.
Claim(next) ==
  IF next.deferred # None /\ next.pending = 0
  THEN /\ sess' = [next EXCEPT !.deferred = None, !.busy = TRUE]
       /\ reader' = next.deferred /\ Write("reader", "prompt", next.deferred, 0)
  ELSE sess' = next /\ UNCHANGED <<reader, cmds>>

TurnEnd == Claim([sess EXCEPT !.busy = FALSE, !.opening = FALSE])

IdleStatus ==
  IF ~Shows(0) THEN UNCHANGED <<sess, reader, cmds>>
  ELSE LET next == [sess EXCEPT !.busy = FALSE, !.opening = FALSE] IN
       IF sess.opening THEN Claim(next) ELSE sess' = next /\ UNCHANGED <<reader, cmds>>

\* openQuestions: refused while another question is open.
QuestionOpened(q) ==
  /\ sess' = IF Shows(0) THEN [sess EXCEPT !.opening = FALSE, !.pending = q, !.busy = FALSE]
             ELSE [sess EXCEPT !.opening = FALSE]
  /\ UNCHANGED <<reader, cmds>>

\* A response that nobody waits for is dropped.
Read ==
  /\ Open /\ reader = None /\ lines # <<>> /\ lines' = Tail(lines)
  /\ LET line == Head(lines) IN
     \/ /\ line.kind = "response"
        /\ reply' = IF Waits(line.by) THEN [reply EXCEPT ![line.by] = line.result] ELSE reply
        /\ UNCHANGED <<sess, reader, cmds>>
     \/ line.kind = "turn.start" /\ sess' = [sess EXCEPT !.busy = TRUE] /\ UNCHANGED <<reader, cmds, reply>>
     \/ line.kind = "turn.end" /\ TurnEnd /\ UNCHANGED reply
     \/ line.kind = "idle" /\ IdleStatus /\ UNCHANGED reply
     \/ line.kind = "question" /\ QuestionOpened(line.question) /\ UNCHANGED reply
  /\ UNCHANGED <<boot, call, running, heard, agent, accepted, budget>>

-----------------------------------------------------------------------------
(* The Bridge and the agent                                                  *)

Line(kind) == [kind |-> kind, by |-> None, result |-> None, question |-> 0]
Question(q) == [Line("question") EXCEPT !.question = q]
Response(c, result) == [Line("response") EXCEPT !.by = c, !.result = result]

\* What the agent reports reaches the reader once the Bridge has subscribed to it.
Reports(events) == IF heard THEN events ELSE <<>>

\* Nobody asked this question, or it was answered.
Unasked(c) == c.kind = "answer" /\ (question = 0 \/ c.question # question)

\* session/start begins the startup turn; a prompt begins a turn if none runs.
Begins(c) == c.kind = "start" \/ (c.kind = "prompt" /\ turn = None)

Execute ==
  /\ Open /\ running = NoCommand /\ cmds # <<>> /\ cmds' = Tail(cmds)
  /\ LET c == Head(cmds) IN
     /\ ~Unasked(c) /\ running' = c
     /\ turn' = IF ~Begins(c) THEN turn ELSE IF c.kind = "start" THEN StartupTurn ELSE c.text
     /\ lines' = lines \o Reports(IF Begins(c) THEN <<Line("turn.start")>> ELSE <<>>)
     /\ backlog' = IF c.kind = "prompt" /\ ~Begins(c) THEN Append(backlog, c.text) ELSE backlog
     /\ given' = IF c.kind = "prompt" THEN given \cup {c.text} ELSE given
     /\ question' = IF c.kind = "answer" THEN 0 ELSE question
  /\ UNCHANGED <<service, heard, budget>>

\* In a workspace the Bridge subscribes once the agent has answered session/start.
Respond ==
  /\ Open /\ running # NoCommand /\ running' = NoCommand /\ heard' = TRUE
  /\ lines' = Append(lines, Response(running.by, "ok"))
  /\ UNCHANGED <<service, cmds, agent, budget>>

Refuse ==
  /\ Open /\ running = NoCommand /\ cmds # <<>> /\ cmds' = Tail(cmds)
  /\ \/ Unasked(Head(cmds)) /\ UNCHANGED budget
     \/ budget.refused > 0 /\ budget' = [budget EXCEPT !.refused = @ - 1]
  /\ lines' = Append(lines, Response(Head(cmds).by, "error"))
  /\ UNCHANGED <<service, running, heard, agent>>

\* The turn ends, and the next prompt has its turn or the agent is idle.
TurnEnds ==
  /\ Open /\ turn # None /\ question = 0
  /\ IF backlog = <<>>
     THEN turn' = None /\ lines' = lines \o Reports(<<Line("turn.end"), Line("idle")>>) /\ UNCHANGED backlog
     ELSE /\ turn' = Head(backlog) /\ backlog' = Tail(backlog)
          /\ lines' = lines \o Reports(<<Line("turn.end"), Line("turn.start")>>)
  /\ UNCHANGED <<service, cmds, running, heard, question, given, budget>>

\* A turn asks, the startup turn as well.
Ask ==
  /\ Open /\ turn # None /\ question = 0
  /\ budget.questions > 0 /\ budget' = [budget EXCEPT !.questions = @ - 1]
  /\ question' = budget.questions /\ lines' = lines \o Reports(<<Question(budget.questions)>>)
  /\ UNCHANGED <<service, cmds, running, heard, turn, backlog, given>>

\* Close, expiry, the exit of the Bridge, a turn that ends with an error
Close ==
  /\ Open /\ sess' = [sess EXCEPT !.closed = TRUE]
  /\ UNCHANGED <<boot, call, reader, reply, accepted, bridge, lines, budget>>

Next ==
  \/ Boot \/ Read \/ Execute \/ Respond \/ Refuse \/ TurnEnds \/ Ask \/ Close
  \/ \E m \in Messages : Message(m) \/ MessageSent(m)
  \/ \E a \in Answers : Answer(a) \/ AnswerSent(a)
  \/ \E c \in Messages \cup Answers : CallEnds(c)

\* Goroutines run, the Bridge executes or refuses and the agent ends a turn that waits for
\* nothing; the user may never answer.
Fairness ==
  /\ WF_vars(Boot) /\ WF_vars(Read) /\ WF_vars(Execute \/ Refuse) /\ WF_vars(Respond) /\ WF_vars(TurnEnds)
  /\ \A m \in Messages : WF_vars(MessageSent(m))
  /\ \A a \in Answers : WF_vars(AnswerSent(a))

Spec == Init /\ [][Next]_vars
LiveSpec == Spec /\ Fairness

-----------------------------------------------------------------------------
(* Properties                                                                *)

\* Where a message is that was taken: with the session, the goroutine that starts it or the
\* reader, or with the agent.
Kept(m) == m \in {sess.queued, sess.deferred, boot.text, reader} \cup given

\* A message that the service answered with success goes to the agent: the start, the opening
\* and the end of a turn hand it over (Message, initializeRuntimeSession,
\* takeDeferredPromptLocked).  One thing only drops it: a later message that is queued in its
\* place before the session is started.
MessagesAreKept ==
  [][\A m \in Messages :
       /\ m \in accepted' \ accepted => Kept(m)'
       /\ Kept(m) /\ ~Kept(m)' => sess.queued = m /\ ~sess.started /\ sess.queued' \in Messages]_vars

Failed(c) == call[c] \in {"refused", "ended"}

\* A session that has read everything and shows itself free has an agent that does nothing
\* (runtimeEvent, Message, Answer).  Not so once a call has failed, which frees the session
\* whatever the agent does, nor in a workspace, where the start frees it again and the first
\* events are missed.
FreeIsIdle ==
  Open /\ lines = <<>> /\ ~Busy /\ Shows(0) =>
    \/ turn = None \/ budget.kind = "workspace" \/ \E c \in Messages \cup Answers : Failed(c)

\* The question a session shows is the one the agent waits with (openQuestions, Answer), but for
\* an answer on its way, and one whose call ended before the response: that question stays.
ShownIsAsked ==
  Open /\ ~Shows(0) => Shows(question) \/ \E a \in Answers : call[a] \in {"sent", "ended"}

\* What the session shows is what the agent does.
AgentIsSeen == TypeOK /\ FreeIsIdle /\ ShownIsAsked

\* The agent waits with a question that the session has dropped or never heard of.
QuestionIsLost ==
  question # 0 /\ ~Shows(question) /\ \A i \in DOMAIN lines : lines[i].question # question

\* The agent waits with a question that the session shows, and that nobody can answer: the start
\* has made the session busy with the opening, which waits behind the question.
AnswerIsRefused == question # 0 /\ Shows(question) /\ Busy /\ \A a \in Answers : call[a] # "sent"

\* A session does not stay busy, unless its reader waits for the response to the deferred message
\* it has sent itself, or the agent waits with a question that was dropped or cannot be answered.
BusyEnds == Busy ~> (~Busy \/ sess.closed \/ reader # None \/ QuestionIsLost \/ AnswerIsRefused)
=============================================================================
