SPECIFICATION FairSpec
CONSTANTS
  m1 = m1
  m2 = m2
  i1 = i1
  Items = {m1, m2, i1}
  Kind <- MailKinds
  Batch = 1
  Depth = 1
  Keys = {"Retry"}
  MaxTime = 2
INVARIANTS NoLostWakeup
PROPERTIES ServesAll DueWorkIsDone
CHECK_DEADLOCK FALSE
