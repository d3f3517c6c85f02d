--------------------------- MODULE MCWechatPublish ---------------------------
EXTENDS WechatPublish

CONSTANTS c1, c2

B(who, c, e, d, f, v, r) ==
  [callers |-> who, calls |-> c, errors |-> e, denials |-> d, faults |-> f, events |-> v,
   rivals |-> r]

\* Two callers with a failed read; one caller with a crash, with a rival, with refusals, a
\* rival and other people's doings, and with refusals and a crash.
MCBudgets ==
  {B({c1, c2}, 2, 1, 0, 0, 0, 0), B({c1}, 2, 0, 0, 1, 1, 0), B({c1}, 3, 0, 0, 0, 0, 1),
   B({c1}, 1, 0, 1, 0, 1, 1), B({c1}, 1, 0, 1, 1, 0, 0)}
=============================================================================
