\* Two overlapping requests, one key or none, a route of each kind.
SPECIFICATION FairSpec
CONSTANTS
  s1 = s1
  s2 = s2
  Slots = {s1, s2}
  Keys = {k1}
  k1 = k1
  NoKey = NoKey
  BadKey = BadKey
  AuthRoutes = {orders}
  OpenRoutes = {products}
  orders = orders
  products = products
  Unrouted = Unrouted
  Ttl = 2
  RedisFails = TRUE
  None = None
INVARIANTS TypeOK ReplaysOwnAnswers RetriesGetThrough
PROPERTIES RefusalExpires EveryRequestEnds
