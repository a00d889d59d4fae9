SPECIFICATION Spec
CONSTANTS
  Requests = {r1, r2, r3}
  Invitations = {i1}
  ExitCodes = {c1}
  None = None
  Operations = {"submit", "cancel", "form", "preregistered"}
  DayLength = 1
  MaxDaysAhead = 1
  InvitationKeepDays = 1
  VisitRetentionDays = 1
  DocumentPhotoRetentionDays = 0
  AssetPhotoRetentionDays = 1
  DocumentPhotoRequired = FALSE
  AssetPhotosRequired = FALSE
  MaxTime = 1
  MaxCrashes = 1
SYMMETRY RequestSymmetry
INVARIANTS
  ImagesFollowOwner
PROPERTIES
  ImagesStay
  ImplementsAdmission
