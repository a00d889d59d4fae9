SPECIFICATION Spec
CONSTANTS
  Requests = {r1, r2}
  People = {p1, p2}
  Spots = {1, 2}
  None = None
  Operations = {"book", "weekly", "cancel", "leave"}
  WeekLength = 2
  WorkingDaysInWeek = 1
  OpensOn = 2
  MaxActive = 1
  MaxDay = 1
  MaxCrashes = 1
SYMMETRY Symmetry
INVARIANTS
  RecordedWeekIsBooked
  
PROPERTIES
  GivenBackStaysFree
