SPECIFICATION SseSpec
CONSTANTS
  MaxIndex = 1
  Indices <- Two
  Chunks <- SomeChunks
  MaxEvents = 2
INVARIANT EverythingForwarded
CHECK_DEADLOCK FALSE
