---------------------------- MODULE MCWechatDraft ----------------------------
EXTENDS WechatDraft

CONSTANTS c1, c2

B(callers, execs, calls, errors, articles, faults) ==
  [callers |-> callers, execs |-> execs, calls |-> calls, errors |-> errors,
   articles |-> articles, faults |-> faults]

\* Two calls at a time, of two executions, with a crash or with an article like this one;
\* one call at a time in two executions with any two of a call by a user, a failed read, a
\* crash and such an article.
MCBudgets ==
  {B({c1, c2}, 2, 0, 0, 0, 0), B({c1, c2}, 1, 0, 0, 0, 1), B({c1, c2}, 1, 0, 0, 1, 0),
   B({c1}, 2, 1, 1, 0, 0), B({c1}, 2, 1, 0, 0, 1), B({c1}, 2, 0, 1, 0, 1),
   B({c1}, 2, 1, 0, 1, 0), B({c1}, 2, 0, 1, 1, 0), B({c1}, 2, 0, 0, 1, 1)}
=============================================================================
