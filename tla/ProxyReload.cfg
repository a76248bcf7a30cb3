SPECIFICATION FairSpec
CONSTANTS
  Requests = {r1}
  Versions = {on, off, reject}
  Unloadable = {}
  Unbuildable = {}
  Unredactable = {}
  Redacting = {on, reject}
  Rejecting = {reject}
  Listing = {on}
  None = none
  MaxReloads = 2
INVARIANTS SnapshotsFresh ExposureExplained AuditTruth
PROPERTIES AdmittedIsAnswered
