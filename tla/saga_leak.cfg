\* Two requests with one key, nothing fails: the second violates the UNIQUE
\* constraint after it has reserved its stock.
\* The system stops once every call has been answered.
SPECIFICATION Spec
CONSTANTS
  r1 = r1
  r2 = r2
  h1 = h1
  h2 = h2
  p1 = p1
  p2 = p2
  k1 = k1
  d1 = d1
  None = None
  NoKey = NoKey
  Products = {p1, p2}
  Details = {d1}
  Requests = {r1, r2}
  Handlers = {h1}
  Items <- TwoItems
  Key <- SameKey
  InitStock <- AmpleStock
  Faults = {}
INVARIANT FailedSagaHoldsNoStock
CHECK_DEADLOCK FALSE
