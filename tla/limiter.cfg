\* A bucket of two that refills in five ticks: a token is no whole number
\* of ticks, and two ticks are a second.  Twice in a window the key may be
\* lost, or a loss of the key is replaced by two requests let through unseen.
SPECIFICATION FairSpec
CONSTANTS
  r1 = r1
  r2 = r2
  Replicas = {r1, r2}
  Skew <- OneAhead
  MaxSkew = 1
  MaxTokens = 2
  Window = 5
  Second = 2
  MaxExcess = 24
  None = None
INVARIANTS TypeOK WindowBound
PROPERTIES RetryAfterIsEnough RefusedIsAdmitted
