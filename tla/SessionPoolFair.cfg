SPECIFICATION FairSpec
CONSTANTS
  Requests = {r1, r2, r3}
  Callers = {c1, c2}
  Sessions = {s1}
  Threads = 2
  NoSession = none
INVARIANTS SlotAccounting SessionsExclusive NoLostWakeup
PROPERTIES EvaluationEnds ImplementsSlots NoStarvation
