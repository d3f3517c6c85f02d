\* No failure at all: the race is between the dispatch worker and the reconciler.
SPECIFICATION Spec
CONSTANTS
  Workers = {w1, w2}
  Cleaners = {c1}
  None = None
  Lease = 3
  ProviderLag = 1
  MaxFaults = 0
  Kubernetes = FALSE
INVARIANTS
  CompensationSparesAuthoritativeWorkload
