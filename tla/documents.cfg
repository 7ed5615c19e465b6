SPECIFICATION Spec

CONSTANTS
  Users = {u1, u2}
  UploadStatus = "uploaded"
  MaxDocuments = 3
  MaxRequests = 2
  MaxFaults = 1

INVARIANTS TypeOK VersionRetiresItsBase FamilyKeepsAVersion
CHECK_DEADLOCK FALSE
