SPECIFICATION FairSpec
CONSTANTS
  Requests = {r1, r2}
  Invitations = {i1}
  ExitCodes = {c1}
  None = None
  Operations = {"submit", "preregistered"}
  DayLength = 1
  MaxDaysAhead = 1
  InvitationKeepDays = 0
  VisitRetentionDays = 0
  DocumentPhotoRetentionDays = 0
  AssetPhotoRetentionDays = 1
  DocumentPhotoRequired = FALSE
  AssetPhotosRequired = FALSE
  MaxTime = 2
  MaxCrashes = 2
PROPERTIES
  RetentionKept
