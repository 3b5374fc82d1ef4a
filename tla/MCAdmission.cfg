SPECIFICATION FairAdmission
CONSTANTS
  r1 = r1  r2 = r2
  listed = listed  spaced = spaced  foreign = foreign
  default = default  google = google
  None = None
  Requests = {r1, r2}
  Urls = {default, google}
  MaxFetches = 2
  MaxKeys <- Keys
  Origins = {listed, spaced, foreign}
  AllowList <- List
INVARIANTS
  AdmissionTypeOK
  OneKeySetPerUrl
  NoMapRace
  ForeignPagesStayOut
  ClientsGetThrough
PROPERTIES
  AdmittedForUs
  RefusedForCause
  KeysCatchUp
  ValidationEnds
CHECK_DEADLOCK FALSE
