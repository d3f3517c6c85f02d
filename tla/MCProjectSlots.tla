---------------------------- MODULE MCProjectSlots ----------------------------
EXTENDS ProjectSlots

CONSTANTS t1, t2

B(tasks, actions, retries, faults) ==
  [tasks |-> tasks, actions |-> actions, retries |-> retries, faults |-> faults]

\* One planned task with everything that can happen to it, and two tasks that compete
\* for the slot with cancellations and pauses, deletions, a retry, or a fault.
MCBudgets ==
  {B({t2}, {"cancel", "delete", "pause"}, 1, 1), B({t1, t2}, {"cancel", "pause"}, 0, 0),
   B({t1, t2}, {"delete"}, 0, 0), B({t1, t2}, {}, 1, 0), B({t1, t2}, {}, 0, 1)}
=============================================================================
