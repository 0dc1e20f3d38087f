\* Two failures open the circuit, two probes beside the first close it.
SPECIFICATION FairSpec
CONSTANTS
  s1 = s1
  s2 = s2
  s3 = s3
  Slots = {s1, s2, s3}
  Skew <- OneAhead
  MaxSkew = 1
  FailureThreshold = 2
  RecoveryTimeout = 3
  HalfOpenMaxRequests = 2
INVARIANTS TypeOK ClosedBelowThreshold ProbesBounded
PROPERTIES OpensOnlyAfterStreak NoEarlyProbe OutageIsProbed ProbingEnds
