SPECIFICATION FairSpec
CONSTANTS
  Requests = {r1}
  People = {p1}
  Spots = {1}
  None = None
  Operations = {"weekly", "update", "delete", "benefit", "apps", "book", "many", "cancel", "leave"}
  WeekLength = 2
  WorkingDaysInWeek = 1
  OpensOn = 1
  MaxActive = 1
  MaxDay = 3
  MaxCrashes = 1
PROPERTIES
  WeekIsHandedOut
  PastBookingsStay
CHECK_DEADLOCK FALSE
