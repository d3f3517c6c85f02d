--------------------------- MODULE MCBillingWallet ---------------------------
EXTENDS BillingWallet, TLC

CONSTANTS s1, s2, t1, t2, a1, a2, q1, q2, u1, u2, r1, r2

\* The two tasks present the same quote.  Operations cost more than one lot holds,
\* so that charges span lots, run into debt, and repayments span charges.
MCPrice    == [c \in Charges |-> CASE c \in Accepted -> 3 [] OTHER -> 2]
MCQuoteOf  == [c \in Quoted |-> IF c \in Tasks THEN q1 ELSE q2]
MCQuoteExpires == [q \in Quotes |-> IF q = q1 THEN 2 ELSE 1]
MCCredits  == [u \in Sources |-> IF u \in Rewards THEN 3 ELSE 4]
MCValidity == [r \in Rewards |-> IF r = r1 THEN 1 ELSE 2]
Symmetry   == Permutations(Servers)
=============================================================================
