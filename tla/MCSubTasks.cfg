SPECIFICATION FairSpec
CONSTANTS
  b1 = b1
  b2 = b2
  k1 = k1
  k2 = k2
  k3 = k3
  w1 = w1
  w2 = w2
  NoWait = NoWait
  Batches = {b1, b2}
  Children = {k1, k2, k3}
  BatchOf <- TwoBatches
  DependsOn <- Chain
  Waits = {w1}
  Targets <- WholeBatches
  MaxWaits = 1
  MaxStops = 1
  Crossing = FALSE
INVARIANTS ResultsReachParent
PROPERTIES ParentResumes ChildrenMoveOn
