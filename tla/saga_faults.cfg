\* Two requests with one key, a confirmation or cancellation, and every fault.
\* The system stops once every call has been answered.
SPECIFICATION LossySpec
CONSTANTS
  r1 = r1
  r2 = r2
  h1 = h1
  h2 = h2
  p1 = p1
  p2 = p2
  k1 = k1
  d1 = d1
  None = None
  NoKey = NoKey
  Products = {p1, p2}
  Details = {d1}
  Requests = {r1, r2}
  Handlers = {h1}
  Items <- TwoItems
  Key <- SameKey
  InitStock <- AmpleStock
  Faults = {"timeout", "dbError", "overflow", "natsDown", "crash", "delete"}
INVARIANTS OrderHasItsStock ReleaseFollowsReserve OneOrderPerKey NoOversell
PROPERTIES EveryCallEnds
CHECK_DEADLOCK FALSE
