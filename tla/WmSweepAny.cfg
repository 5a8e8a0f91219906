SPECIFICATION MCSpec
CONSTANTS
  o1 = o1
  o2 = o2
  b1 = b1
  b2 = b2
  SweepId = {s1, s2, s3}
  Id = {o1, o2}
  Atom = {Nil, x}
  Nil = Nil
  MaxElements = 1
  Threshold = 2
  NoId = NoId
  NoValue = NoValue
  Parts = {"sweeps"}
  Absent = Absent
  Ids <- MCTwoIds
  Classes <- MCClasses
  Blocks <- MCBlocks
  BlockOf <- MCBlockOf
  IsSubclass <- MCIsSubclass
  Vals = {0, 1}
  DefaultVal = 0
  MaxTag = 4
  MaxDepth = 3
SYMMETRY IdSymmetry
INVARIANT CursorsLive
