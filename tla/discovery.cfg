\* A tick is 5 s: heartbeats and checks every 2, marked after more than 6.
SPECIFICATION FairSpec
CONSTANTS
  orders = orders
  o1 = o1
  o2 = o2
  Services = {orders}
  Replicas = {o1, o2}
  ServiceOf <- Names
  Interval = 2
  Timeout = 6
  MaxDelay = 1
  None = None
INVARIANTS TypeOK SilentIsFlagged
PROPERTIES FlaggedHasMissed DeadIsFlagged RunningIsHealthy
