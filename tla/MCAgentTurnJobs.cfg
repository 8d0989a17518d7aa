SPECIFICATION FairSpec
CONSTANTS
  s1 = s1
  s2 = s2
  NoCall = NoCall
  Slots = {s1, s2}
  MultiTurn = FALSE
  SilentJobs = FALSE
  Commands = {}
  MaxIter = 1
  MaxRetries = 1
  MaxInputs = 0
  MaxJobs = 2
  MaxStops = 0
INVARIANTS DeferredIsWoken
PROPERTIES CompletionSeesNotices TurnEnds MailReachesAgent
