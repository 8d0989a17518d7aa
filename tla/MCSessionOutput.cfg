SPECIFICATION FairSpec
CONSTANTS
  Sessions = {1, 2}
  Route <- PlatformAndTui
  Writes <- TwoAndOne
  MaxBuffered = 1
  MaxPolled = 2
  MaxAttempts = 2
  MayEnd = {1}
  MayShutDown = TRUE
INVARIANTS OneAttemptAtATime NoGapNoRepeat
PROPERTIES OutputSettles KeepsLog
