------------------------- MODULE MCUploadSessions -------------------------
(***************************************************************************)
(* Scenarios: two clients on a media session, whose object is replaced, the *)
(* call of one for a list of URLs; one client and a copy that ends late; a  *)
(* session that expires after one that got stuck; a task artifact and one   *)
(* or two servers that clean up; two clients that complete the same         *)
(* artifact.                                                                *)
(***************************************************************************)
EXTENDS UploadSessions

CONSTANTS m1, m2, a1, u1, u2, k1, k2, g1, g2, b1

Scenario(ss, us, ks, slow, xs, puts, calls, faults, late) ==
  [sessions |-> ss, users |-> us, cleaners |-> ks, slow |-> slow, contents |-> xs, puts |-> puts,
   calls |-> calls, faults |-> faults, late |-> late]

MCBudgets ==
  {Scenario({m1}, {u1, u2}, {k1}, {}, {g1, g2}, 2, 2, 0, FALSE),
   Scenario({m1}, {u1, u2}, {k1}, {}, {g1, g2}, 2, 1, 1, TRUE),
   Scenario({m1}, {u1, u2}, {k1}, {u1}, {g1}, 1, 2, 0, FALSE),
   Scenario({m1}, {u1}, {k1}, {}, {g1, g2}, 2, 2, 1, TRUE),
   Scenario({m1}, {u1}, {k1}, {u1, k1}, {g1}, 1, 1, 1, TRUE),
   Scenario({m1, m2}, {u1}, {k1}, {}, {g1, g2}, 1, 1, 1, FALSE),
   Scenario({a1}, {u1}, {k1, k2}, {k1}, {g1}, 1, 1, 0, FALSE),
   Scenario({a1}, {u1}, {k1}, {k1}, {g1}, 2, 1, 2, TRUE),
   Scenario({a1}, {u1, u2}, {k1}, {}, {g1, b1}, 2, 2, 0, FALSE)}
=============================================================================
