SPECIFICATION FairSpec
CONSTANTS
  Streams = {s1, s2}
  Senders = {a}
  Reader = reader
  MaxQueued = 3
  MaxSends = 3
  NoMessage = NoMessage
CHECK_DEADLOCK FALSE
INVARIANTS TypeOK QueuesExact NoLostWakeup FifoPerStream RoundRobin
PROPERTIES SendsGoThrough WriterStops
