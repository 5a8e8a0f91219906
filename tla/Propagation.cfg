SPECIFICATION MCSpec
CONSTANTS
  o1 = o1
  o2 = o2
  Absent = Absent
  NoSnapshot = NoSnapshot
  Unregistered = Unregistered
  Ids <- MCIds
  Classes <- MCClasses
  Blocks <- MCBlocks
  BlockOf <- MCBlockOf
  IsSubclass <- MCIsSubclass
  Vals = {0, 1}
  DefaultVal = 0
  MaxTag = 3
  MaxDepth = 2
  RulingBlocks <- MCRulingBlocks
  EntryBlocks <- MCEntryBlocks
  Activates <- MCActivates
  Scope <- MCScope
  Retain <- MCRetain
  MaxRuns = 2
INVARIANTS
  NetworkLagsByQueue
  UsesMatchRuns
  UnsnappedDeltasLive
PROPERTIES
  ImplementsView
  UpdateDrains
CHECK_DEADLOCK FALSE
