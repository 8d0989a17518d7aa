SPECIFICATION FairSpec
CONSTANTS
  NoDef = NoDef
  NoItem = NoItem
  Ids = {s1}
  MaxRuns = 2
  MaxVersion = 1
  MaxEdits = 2
  MaxTriggers = 1
  MaxFaults = 1
  MaxCrashes = 1
  MaxStreak = 2
  MaxQueued = 1
INVARIANTS NoOverlap OnceRunsOnce CountedOnce
PROPERTIES RemovedForCause EverythingSettles
