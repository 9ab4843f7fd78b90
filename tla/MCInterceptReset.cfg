SPECIFICATION Spec
CONSTANTS
  Enablers = {e1, e2}
  Threads = {t1, t2}
  App = app
  NoOne = NoOne
  Contexts = {k1, k2}
  Paths = {p1}
  Fds = {3, 4}
  Closed = Closed
  Free = Free
  NoFile = NoFile
  Failure = Failure
  Faults = {}
  MaxTries = 1
  Requests = {"on", "reset"}
  Budget = 2
INVARIANT ResetRestores
