SPECIFICATION Spec
CONSTANTS
  Workers = {w1, w2}
  Resetters = {r1}
  Clients = {owner}
  Owner = owner
  NoOne = NoOne
  Requests = {}
  Operations = {}
  Stickies = {FALSE}
  ThreadMaxes = {2}
  ThreadLimit = 2
  MaxPause = 1
  QueueWidth = 4
  Lengths = {1}
  Racy = FALSE
  Budget = 2
INVARIANT EveryTriggerSends
