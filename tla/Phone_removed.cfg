SPECIFICATION PhoneSpec
CONSTANTS
  LastIssued = 2
  LastStart = 1
  MaxRunning = 2
INVARIANT
  RemovedStaysRemoved
CHECK_DEADLOCK FALSE
