\* Two batches of one parent, with keys of their own, with the same ones or with one used
\* twice, parallel or sequential, the second one possibly too large: three rounds each, a
\* timeout and a clean-up at any moment.
SPECIFICATION FairSpec
CONSTANTS
  k0 = k0
  k1 = k1
  k2 = k2
  OutputKey = {k0, k1, k2}
  None = None
  MaxBatches = 2
  BatchKeys <- SomeKeys
  Modes = {"parallel", "sequential"}
  MaxParallelism = 2
  MaxRounds = 2
  Workers = 2
  CanTimeOut = TRUE
  HostCleansUp = TRUE
INVARIANTS
  ResumesItself
  BlockedIsCheckpointed
PROPERTIES
  ImplementsContract
  BatchReturns
