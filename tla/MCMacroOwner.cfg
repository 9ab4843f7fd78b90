SPECIFICATION Spec
CONSTANTS
  Workers = {w1, w2}
  Resetters = {}
  Clients = {owner}
  Owner = owner
  NoOne = NoOne
  Requests = {1, 2}
  Operations = {"edit", "insert", "indirect", "copy", "deinit", "set_all"}
  Stickies = {FALSE}
  ThreadMaxes = {2}
  ThreadLimit = 2
  MaxPause = 1
  QueueWidth = 5
  Lengths = {0, 1}
  Racy = FALSE
  Budget = 4
INVARIANT IInv
SYMMETRY Symmetry
