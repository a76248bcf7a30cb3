SPECIFICATION FairSpec
CONSTANTS
  N = 3
  Items = {a, b}
  Kinds = {email, phone}
INVARIANTS DecisionIsReference RedactionsCompose UncheckedIsReported
PROPERTIES TimedRunEnds
CHECK_DEADLOCK FALSE
