SPECIFICATION StreamSpec
CONSTANTS
  HoldBack = 11
  MaxCarry = 40
  RetryAfter = 3
  MaxCutAttempts = 2
  MaxText = 32
  Pieces <- NumberFragments
INVARIANT StreamContract
CHECK_DEADLOCK FALSE
