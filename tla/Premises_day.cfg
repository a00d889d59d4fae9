SPECIFICATION Spec
CONSTANTS
  Requests = {r1, r2}
  Pair = {p1, p2}
  Twins = {t1, t2}
  Handlers = {r1, r2, third}
  ParcelIds = {one}
  AfterCollect = 1
  PhotoDays = 2
  KeepDays = 3
  LastDay = 4
  Marshals = {r1, r2}
  Guests = {guest}
  Staffers = {one}
  Alarms = {1, 2}
  Installers = {r1, r2}
  Codes = {1, 2}
  Devices = {1, 2}
  Places = {t1, t2}
  MaxDevices = 1
  MaxSites = 1
  Editors = {one}
  Docs = {p1, p2}
  MaxVersion = 2
  Managers = {r1, r2}
  HostIds = {one, third}
  Edited = {one}
  Offices = {t1, t2}
  Workers = {one}
  MaxName = 1
  Replicas = {r1, r2}
  ResolverTTL = 1
  KeysTTL = 2
  Callers = {r1, r2, p1, p2}
  Limit = 2
  Window = 2
  LastTick = 5
  Lots = {p1, p2}
  LotDays = {one}
  MaxActive = 1
  MaxCalendars = 3
  NoLot = NoLot
SYMMETRY Interchangeable
INVARIANTS
  TypeOK
  
  
  PlanHolds
  AcceptedInForce
  
  ShreddedForGood
  LimitHolds
  BookedWherePicked
CHECK_DEADLOCK FALSE
