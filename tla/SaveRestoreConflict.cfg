SPECIFICATION MCSpec
CONSTANTS
  b1 = b1
  b2 = b2
  e1 = e1
  e2 = e2
  r1 = r1
  r2 = r2
  k1 = k1
  k2 = k2
  k3 = k3
  k4 = k4
  Block = {b1, b2}
  Rule = {r1, r2}
  EntryBlock = {e1, e2}
  Sees <- MCSees
  Rules <- MCRules
  MaxObjects = 2
  MaxId = 4
  MaxTag = 2
  MaxGen = 2
  MaxSaves = 2
  Key = {k1, k2, k3, k4}
  Object = {o1, o2}
  None = NoObject
  Size = 2
  Hash <- MCHash
  RemoveAny = FALSE
  Item = {o1, o2}
  NULL = NULL
  Garbage = Garbage
  InitialSize = 1
  Room = 1
  Most = 2
  MaxLength = 4
  Parts = {"objects"}
INVARIANT ConflictSetRestored
