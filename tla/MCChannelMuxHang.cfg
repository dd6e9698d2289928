SPECIFICATION FairSpec
CONSTANTS
  Streams = {s1}
  Senders = {a, b}
  Reader = reader
  MaxQueued = 1
  MaxSends = 1
  NoMessage = NoMessage
CHECK_DEADLOCK FALSE
PROPERTY SendReturns
