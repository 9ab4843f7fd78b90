SPECIFICATION FairSpec
CONSTANTS
  Gen = gen
  Abs = abs
  App = app
  Threads = {app, t1}
  NoThread = NoThread
  Contexts = {c1, c2}
  NoContext = NoContext
  Shared = FALSE
  Clients = {u1}
  HookThreads = {h1, h2}
  DisableThreads = {d1}
  Impatient = {h1}
  NoOne = NoOne
INVARIANTS TypeOK EnabledCanWrite ReadyWhileUsed NothingForgotten LockProtects HooksKnown
PROPERTY GrabThreadsEnd
