SPECIFICATION OutboxFairSpec
CONSTANTS
  MaxNotes = 3
  Capacity = 2
  AutoAttempts = 2
  MaxAttempts = 3
  DailyLimit = 1
  MaxFaults = 1
  MaxCrashes = 1
  MaxDays = 1
  MaxRetries = 1
  Recipients = {u1, u2}
INVARIANTS NoSilentDuplicate QuotaKept
PROPERTIES NotesSettle
CHECK_DEADLOCK FALSE
