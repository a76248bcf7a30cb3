SPECIFICATION Spec
CONSTANTS
  Requests = {r1}
  Versions = {on, off}
  Unloadable = {}
  Unbuildable = {}
  Unredactable = {}
  Redacting = {on}
  Rejecting = {}
  Listing = {on}
  None = none
  MaxReloads = 1
INVARIANTS ResponsesStreamRefused
