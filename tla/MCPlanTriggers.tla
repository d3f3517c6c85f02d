--------------------------- MODULE MCPlanTriggers ---------------------------
EXTENDS PlanTriggers

CONSTANTS p1, p2, e1, e2, s1, s2

\* Two servers and two plans; two servers, two entries and users who never reschedule;
\* every user action, with two expressions, three times or twice and with a fault; two
\* servers of which one fails.
MCBudgets ==
  {[plans |-> {p1, p2}, entries |-> {e1}, servers |-> {s1, s2}, crons |-> {1},
    actions |-> {}, time |-> 1, acts |-> 0, faults |-> 0],
   [plans |-> {p1}, entries |-> {e1, e2}, servers |-> {s1, s2}, crons |-> {1},
    actions |-> {"execute", "pause", "delete"}, time |-> 1, acts |-> 2, faults |-> 0],
   [plans |-> {p1}, entries |-> {e1}, servers |-> {s1}, crons |-> {1, 2},
    actions |-> UserActions, time |-> 2, acts |-> 3, faults |-> 0],
   [plans |-> {p1}, entries |-> {e1, e2}, servers |-> {s1}, crons |-> {1},
    actions |-> UserActions, time |-> 1, acts |-> 2, faults |-> 1],
   [plans |-> {p1}, entries |-> {e1}, servers |-> {s1, s2}, crons |-> {1},
    actions |-> {"execute", "pause", "resume"}, time |-> 1, acts |-> 1, faults |-> 1]}
=============================================================================
