SPECIFICATION Spec
CONSTANTS
  s1 = s1
  s2 = s2
  t1 = t1
  t2 = t2
  a1 = a1
  a2 = a2
  q1 = q1
  q2 = q2
  u1 = u1
  u2 = u2
  r1 = r1
  r2 = r2
  None = None
  Keys = {"key"}
  Servers = {s1, s2}
  Tasks = {t1, t2}
  Standalone = {}
  Accepted = {a1, a2}
  Images = {}
  PromotionOK = {t1, t2}
  TopUps = {u1, u2}
  Rewards = {r1, r2}
  Qualifying = {u2}
  Welcome = {r1}
  Price <- MCPrice
  QuoteOf <- MCQuoteOf
  QuoteExpires <- MCQuoteExpires
  Credits <- MCCredits
  Validity <- MCValidity
  MaxClock = 1
  SnapshotReads = TRUE
SYMMETRY Symmetry
CHECK_DEADLOCK FALSE
INVARIANTS BooksBalance ExpiredStaysExpired QuoteIsSpentOnce
PROPERTIES AlarmMeansOldSnapshot
