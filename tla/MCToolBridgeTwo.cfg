SPECIFICATION Spec
CONSTANTS
  t1 = t1
  c1 = c1
  c2 = c2
  Tasks = {t1}
  Calls = {c1, c2}
  Owner <- SharedOwner
  TaskLevel = {c1, c2}
  Backgroundable = {c1}
  MaxRetry = 0
  Batch = 2
PROPERTIES TimelyAnswers NotifiedUnlessStopped StopSelects
