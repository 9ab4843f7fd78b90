SPECIFICATION Spec
CONSTANTS
  Enablers = {e1, e2}
  Threads = {t1, t2}
  App = app
  NoOne = NoOne
  Contexts = {k1, k2}
  Paths = {p1, p2}
  Fds = {3, 4}
  Closed = Closed
  Free = Free
  NoFile = NoFile
  Failure = Failure
  Faults = {"open"}
  MaxTries = 1
  Requests = {"on", "off", "reset"}
  Budget = 3
INVARIANTS TypeOK OneThreadEach OwnsContexts DispatchesOwn
SYMMETRY Symmetry
