SPECIFICATION MCSpec
CONSTANTS
  o1 = o1
  o2 = o2
  a1 = a1
  a2 = a2
  Absent = Absent
  Unregistered = Unregistered
  Free = Free
  NoRefSet = NoRefSet
  InvalidCache = InvalidCache
  Garbage = Garbage
  NoWinner = NoWinner
  Ids <- MCIds
  Vals <- MCVals
  Rules <- MCRules
  Block <- MCBlock
  Wants <- MCWants
  Unless <- MCUnless
  Rank <- MCRank
  RulingBlocks <- MCRulingBlocks
  Mea = {"rb1"}
  Retain = {"rb2"}
  EntryBlocks <- MCEntryBlocks
  Activates <- MCActivates
  RefSets <- MCRefSets
  MaxTag = 3
  MaxRuns = 2
  MaxAfter = 0
  Scenes = {"debugger"}
  DebuggerCalls <- PlainCalls
  DebuggerFirings = 4
  DebuggerAfter = 1
SYMMETRY Symmetry
INVARIANT StopsAsAsked
CHECK_DEADLOCK FALSE
