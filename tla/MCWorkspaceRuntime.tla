------------------------ MODULE MCWorkspaceRuntime ------------------------
EXTENDS WorkspaceRuntime

CONSTANTS s1, s2, s3

B(ss, closers, committers, failures, exits) ==
  [sessions |-> ss, closers |-> closers, committers |-> committers, failures |-> failures,
   exits |-> exits]

\* Three modes: one closes and a start is refused, or one closes and one commits; two
\* modes with closes, a commit and an exit, or with two refusals and two exits.
MCAllowances ==
  {B({s1, s2, s3}, {s1}, {}, 1, 0), B({s1, s2, s3}, {s2}, {s1}, 0, 0),
   B({s1, s2}, {s1, s2}, {s1}, 0, 1), B({s1, s2}, {}, {}, 2, 2)}
=============================================================================
