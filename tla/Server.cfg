\* The process ends, and an embedded server may have nothing left to do.
CHECK_DEADLOCK FALSE
SPECIFICATION Spec
CONSTANTS
  Conns = {c1, c2}
  ChannelSize = 1
  QueueSize = 1
  MaxRequests = 2
INVARIANTS GaugeExact DroppedHandleServes FlushedAtExit
PROPERTIES SignalEnds QueuedAccepted
