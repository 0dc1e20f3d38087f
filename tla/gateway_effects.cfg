\* One request after the other, and Redis always answers.
SPECIFICATION Spec
CONSTANTS
  s1 = s1
  s2 = s2
  Slots = {s1}
  Keys = {k1}
  k1 = k1
  NoKey = NoKey
  BadKey = BadKey
  AuthRoutes = {orders}
  OpenRoutes = {products}
  orders = orders
  products = products
  Unrouted = Unrouted
  Ttl = 2
  RedisFails = FALSE
  None = None
INVARIANT OneEffectPerKey
