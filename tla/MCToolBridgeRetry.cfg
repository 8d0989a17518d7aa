SPECIFICATION FairSpec
CONSTANTS
  t1 = t1
  c1 = c1
  Tasks = {t1}
  Calls = {c1}
  Owner <- OneOwner
  TaskLevel = {c1}
  Backgroundable = {c1}
  MaxRetry = 1
  Batch = 2
INVARIANTS Answerable JobTracksBackgrounded BackgroundAnswersOnce
PROPERTIES EveryCallSettles
