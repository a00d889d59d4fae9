SPECIFICATION FairSpec
CONSTANTS
  Workers = {w1, w2}
  Deliveries = {1, 2}
  Devices = {v1, v2}
  None = None
  MaxAttempts = 2
  HookBackoff = 1
  PushBackoff = 1
  BatchSize = 1
  MaxFaults = 1
  MaxTrouble = 4
  MaxResends = 1
  MaxEdits = 1
  Installations = {{"notice","badge"}, {"invitation"}, {"arrival"}, {"parcel","push"}, {"hook"}}
INVARIANTS
  
  FewLateMails
PROPERTIES
  EveryRowIsSettled
CHECK_DEADLOCK FALSE
