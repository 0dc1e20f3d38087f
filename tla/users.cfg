\* A registration, another or a login or profile call, and two user.get requests
\* over two processes that may stop, crash and start again; calls may fail.
\* Nothing deadlocks: a process can always be stopped or started.
SPECIFICATION FairSpec
CONSTANTS
  c1 = c1
  c2 = c2
  e1 = e1
  w1 = w1
  w2 = w2
  q1 = q1
  q2 = q2
  p1 = p1
  p2 = p2
  None = None
  Calls = {c1, c2}
  Sends <- MCSends
  Emails = {e1}
  Passwords = {w1, w2}
  Requests = {q1, q2}
  Asks <- MCAsks
  Procs = {p1, p2}
  JwtSecret = TRUE
  Faults = {"dbError", "lost", "crash"}
INVARIANTS TypeOK AnsweredHasAccount ReadYourRegistration
PROPERTIES QueueKeepsMoving ShutdownEnds
