\* Two requests that compete for scarce stock, and two confirmations or
\* cancellations that may overlap; calls are answered, processes may stop.
\* The system stops once every call has been answered.
SPECIFICATION Spec
CONSTANTS
  r1 = r1
  r2 = r2
  h1 = h1
  h2 = h2
  p1 = p1
  p2 = p2
  k1 = k1
  d1 = d1
  None = None
  NoKey = NoKey
  Products = {p1, p2}
  Details = {d1}
  Requests = {r1, r2}
  Handlers = {h1, h2}
  Items <- Crossed
  Key <- NoKeys
  InitStock <- ScarceStock
  Faults = {"natsDown", "crash"}
INVARIANTS TypeOK StockAddsUp
PROPERTIES CancelledIsFinal ImplementsReservations
CHECK_DEADLOCK FALSE
