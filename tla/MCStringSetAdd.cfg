SPECIFICATION Spec
CONSTANTS
  Elements = {0, 1, 2}
  Unwritten = 9
  CellLimit = 5
  FirstCells = 2
  LongSources = 2
  Misfills = FALSE
  Mistreats = FALSE
  MapKeys = {0, 1, 2, 3}
  MapValues = {0, 1}
  Freed = 9
  MapLimit = 4
  FirstPairs = 2
  RemapsGrow = FALSE
  Texts = {1, 2}
  SetLimit = 5
  FirstStrings = 2
  CopiesUpTo = 2
  Mishandled = {"add"}
  Labels = {t1, t2, t3}
  NoText = none
  AnyText = t1
  Codes = {0, 1}
  Keys = {k1, k2, k3}
  Modifiers = {m1, m2, m3}
  MovesInPlace = FALSE
  Interfaces = {x1, x2}
  TypeNames = {n1, n2, n3}
  NoName = none
  NoId = 99
  Insts = {i1, i2}
  Objects = {o1, o2, o3}
  Null = null
  IFaces = {f1, f2}
  Wrapped = {w1, w2}
  Blocks = {b1, b2}
  Nowhere = nowhere
  Activators = {a1}
  KeyActivators = {a1}
  MostTriggers = 1
  MostTimes = 2
  Phrases = {blank, p1, p2}
  Blank = blank
  Garbled = garbled
  Providers = {g1, g2}
  NoProvider = noProvider
  Vectors = {v1, v2}
  ZeroVector = zero
  Typists = {y1, y2}
  LastChar = 1
  TypeKeys = {1}
  ShiftKey = 2
  KeyVals <- MCKeyVals
  Shifted = {0}
  Lists <- MCLists
  TypedTexts <- MCTypedTexts
  TypingBudget = 3
INVARIANT AddedIsFound
