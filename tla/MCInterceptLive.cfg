SPECIFICATION FairSpec
CONSTANTS
  Enablers = {e1}
  Threads = {t1, t2}
  App = app
  NoOne = NoOne
  Contexts = {k1, k2}
  Paths = {p1}
  Fds = {3, 4}
  Closed = Closed
  Free = Free
  NoFile = NoFile
  Failure = Failure
  Faults = {"open", "read", "grab"}
  MaxTries = 2
  Requests = {"on", "off", "reset", "deinit", "grabs", "blockable"}
  Budget = 3
INVARIANTS NobodyLeft NoDoubleGrab
PROPERTIES DisableComplete CallersEnd
