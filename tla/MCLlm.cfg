CONSTANTS
  Caller = {c1, c2, c3}
  FailureThreshold = 2
  SuccessThreshold = 2
  Recovery = 2
  MaxProbes = 1
  MaxConcurrent = 2
  MaxRequests = 3
  Window = 2
SPECIFICATION FairSpec
INVARIANTS TypeOK PermitsConserved WindowWithinLimit BreakerSound
PROPERTIES Recovers
