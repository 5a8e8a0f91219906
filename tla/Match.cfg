SPECIFICATION MCSpec
CONSTANTS
  o1 = o1
  o2 = o2
  o3 = o3
  Absent = Absent
  c1 = c1
  c2 = c2
  c3 = c3
  c4 = c4
  b1 = b1
  b2 = b2
  Root = Root
  NoBlock = NoBlock
  Nil = Nil
  Parts = {"join", "dispatch", "chains", "tree"}
SYMMETRY ClassSymmetry
INVARIANTS
  ConflictSubsetIsJoin
  CrossMatchesExact
  MembersLive
  NetworkExact
  SearchTree
PROPERTY PropagationEnds
CHECK_DEADLOCK FALSE
