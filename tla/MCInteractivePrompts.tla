----------------------- MODULE MCInteractivePrompts -----------------------
EXTENDS InteractivePrompts

CONSTANTS m1, m2, m3, a1, a2

B(ms, as, kind, questions, refused, ended) ==
  [messages |-> ms, answers |-> as, kind |-> kind, questions |-> questions, refused |-> refused, ended |-> ended]

\* The three kinds of session: messages against the opening, questions against answers, and a
\* command that is refused or a call that ends against both.
MCBudgets ==
  {B({m1, m2}, {a1}, "guided", 1, 1, 0), B({m1}, {a1, a2}, "guided", 2, 0, 0), B({m1, m2}, {}, "guided", 0, 0, 1),
   B({m1, m2}, {a1, a2}, "plain", 2, 0, 0), B({m1, m2, m3}, {}, "plain", 0, 0, 0), B({m1}, {a1, a2}, "plain", 2, 1, 1),
   B({m1, m2}, {a1}, "workspace", 1, 0, 0), B({m1}, {a1, a2}, "workspace", 2, 0, 1),
   B({m1, m2}, {}, "workspace", 0, 1, 1)}
=============================================================================
