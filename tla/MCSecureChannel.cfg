SPECIFICATION Spec
CONSTANTS
  WindowSize = 2
  RekeyMessages = 3
  MaxSkip = 1
  TimedRekey = TRUE
  MaxMessages = 7
  Lines <- MCLines
CHECK_DEADLOCK FALSE
INVARIANTS TypeOK HandshakeAgrees WindowExact DeliveredOnce NonceUnique Lockstep
