SPECIFICATION FairLogSpec
CONSTANTS
  Live = live
  Times = {1, 2}
  Lengths = {1, 2, 4}
  MaxSize = 3
  MaxRecords = 3
INVARIANTS NothingLost WrittenOnce FileBound
PROPERTIES WriteEnds
