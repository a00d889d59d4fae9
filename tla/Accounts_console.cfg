SPECIFICATION Spec
CONSTANTS
  Requests = {r1, r2}
  Users = {u1, u2}
  Browsers = {b1, b2}
  Directories = {d1, d2}
  Attempts = {a1, a2}
  None = None
  Agendas <- SmallAgendas
  MaxFailed = 2
  MaxUsers = 2
  MaxStep = 1
SYMMETRY Interchangeable
INVARIANTS
  TypeOK
  EntriesBounded
  EndedStaysEnded
  SecondFactorHolds
  WayInStays
CHECK_DEADLOCK FALSE
