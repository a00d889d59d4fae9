SPECIFICATION Spec
CONSTANTS
  Requests = {r1, r2}
  Employees = {e1, e2}
  Staff = {e1}
  Externals = {x1, x2}
  Phones = {p1, p2}
  m1 = m1
  m2 = m2
  c1 = c1
  j1 = j1
  Cards = {c1}
  Emails = {m1, m2}
  Projects = {j1}
  None = None
  Keep = Keep
  Inputs <- SmallInputs
  Agendas = {{"put","delete","project"}, {"ask","activate"}, {"activate","sso","revoke","remove","register","delete"}, {"verify","activate","sso","revoke","put"}, {"verify","settings"}}
  MaxAttempts = 2
  MaxCodes = 2
  MaxBadges = 1
  MaxStarts = 3
SYMMETRY Interchangeable
INVARIANTS
  TypeOK
  GuessesBounded
  WhatIsShared
  NoticesFollowBadge
  GrantedHeld
CHECK_DEADLOCK FALSE
