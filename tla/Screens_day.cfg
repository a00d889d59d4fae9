SPECIFICATION Spec
CONSTANTS
  Visitors = {p1, p2}
  MaxChanges = 1
  MaxLoad = 3
  LastText = 2
  LastLoad = 2
  CardsAtDoor = {p1, p2}
  ResultTime = 1
  CardTime = 2
  CodeTime = 3
  MaxPairings = 2
  LastIssued = 2
  LastStart = 1
  MaxRunning = 2
  LastBadge = 2
  LastCode = 2
  MaxChecks = 2
  LastInvite = 2
  LastForm = 2
  MaxTasks = 2
  LastPanel = 2
  MaxJobs = 2
  LastEnrolment = 1
  LastCodes = 2
  MaxAsked = 2
INVARIANTS
  OneGuestOneVisit
  
  
  RemovedIsDead
  InvitedOnce
  
PROPERTY
  CodeFollowsClock
CHECK_DEADLOCK FALSE
