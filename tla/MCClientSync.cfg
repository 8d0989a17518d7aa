SPECIFICATION Spec
CONSTANTS
  Clients = {c1}
  Commands = {"answer1", "answer2", "stop1"}
  Requests = {"r1"}
  Kind <- AnswerTwiceAndStop
  Retention = 1
  MaxEvents = 3
  MaxFaults = 1
  MaxCrashes = 1
  MaxDrops = 1
INVARIANTS ToldIsDurable QuietClientIsCurrent CommandOnce OneAnswer
CHECK_DEADLOCK FALSE
