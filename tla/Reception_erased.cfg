SPECIFICATION Spec
CONSTANTS
  Requests = {r1, r2, r3}
  Invitations = {i1}
  ExitCodes = {c1}
  None = None
  Operations = {"form", "checkout", "erase"}
  DayLength = 1
  MaxDaysAhead = 1
  InvitationKeepDays = 1
  VisitRetentionDays = 0
  DocumentPhotoRetentionDays = 0
  AssetPhotoRetentionDays = 1
  DocumentPhotoRequired = FALSE
  AssetPhotosRequired = TRUE
  MaxTime = 1
  MaxCrashes = 0
INVARIANT
  ErasedKeepsNoImage
