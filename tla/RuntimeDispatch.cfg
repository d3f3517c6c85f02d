SPECIFICATION FairSpec
CONSTANTS
  Workers = {w1, w2}
  Cleaners = {c1, c2}
  None = None
  Lease = 3
  ProviderLag = 1
  MaxFaults = 1
  Kubernetes = TRUE
INVARIANTS NoWorkloadAfterCleanup StartedWorkloadIsAuthoritative
PROPERTIES RowIsFinal ImplementsOneShot EventuallyCleaned
