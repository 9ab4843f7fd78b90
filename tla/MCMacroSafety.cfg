SPECIFICATION Spec
CONSTANTS
  Workers = {w1, w2}
  Resetters = {r1}
  Clients = {owner, c1}
  Owner = owner
  NoOne = NoOne
  Requests = {0, 2, 3, 4}
  Operations = {"edit"}
  Stickies = {FALSE}
  ThreadMaxes = {2}
  ThreadLimit = 2
  MaxPause = 1
  QueueWidth = 4
  Lengths = {1}
  Racy = TRUE
  Budget = 3
INVARIANTS TypeOK NoStaleSend
PROPERTY AccessSpec
SYMMETRY Symmetry
