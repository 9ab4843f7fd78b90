SPECIFICATION Spec
CONSTANTS
  k1 = k1
  k2 = k2
  v1 = v1
  v2 = v2
  f = f
  Types = {k1, k2}
  Values = {v1, v2}
  ModFlags = {f}
  NoType = NoType
  NoSignal = NoSignal
  Sources <- MCSources
  Copies <- MCCopies
  Interceptions <- MCInterceptions
  Depth = 2
  MaxCalls = 4
  Threads = {t1, t2}
  Receivers = {1, 2}
  Nobody = Nobody
  Cells = 4
  Keys = {0, 1}
  AnyKey = 0
  Flags = {f}
  KeyModifier <- MCKeyModifier
  Signals <- MCSignals
  Registered <- MCRegistered
  Additions <- MCAdditions
  Budget = 3
  HardEvents <- MCHardEvents
  BatchLength = 3
  Batches = 2
  Echoing = {1}
  Click = 2
INVARIANTS TypeOK CalledWasRegistered AllCalled BlockersHeeded AppliedOnce EventsArrive
PROPERTIES MatchingSpec CompletesInOrder
SYMMETRY Symmetry
