SPECIFICATION SseSpec
CONSTANTS
  MaxIndex = 1
  Indices <- Two
  Chunks <- SomeChunks
  MaxEvents = 3
INVARIANTS EventsInOrder TextKept TextBeforeEnd EndedInFull
CHECK_DEADLOCK FALSE
