SPECIFICATION Spec
CONSTANTS
  Requests = {r1, r2}
  Invitations = {i1}
  ExitCodes = {c1}
  None = None
  Operations = {"submit", "cancel", "form", "preregistered", "checkout", "erase"}
  DayLength = 1
  MaxDaysAhead = 1
  InvitationKeepDays = 0
  VisitRetentionDays = 0
  DocumentPhotoRetentionDays = 0
  AssetPhotoRetentionDays = 1
  DocumentPhotoRequired = TRUE
  AssetPhotosRequired = TRUE
  MaxTime = 2
  MaxCrashes = 1
SYMMETRY RequestSymmetry
INVARIANTS
  ImagesAccountedFor
PROPERTIES
  VisitLifecycle
