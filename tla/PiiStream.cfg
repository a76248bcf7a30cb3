SPECIFICATION StreamSpec
CONSTANTS
  HoldBack = 7
  MaxCarry = 11
  RetryAfter = 1
  MaxCutAttempts = 2
  MaxText = 13
  Pieces <- Fragments
INVARIANTS StreamContractApart Prompt
CHECK_DEADLOCK FALSE
