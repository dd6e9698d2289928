SPECIFICATION Spec
CONSTANTS
  Data = {"empty", "one", "two", "quota", "huge"}
  LenOf <- MCLenOf
  Keys = {k1}
  None = None
  MaxMemory = 4
  MaxBlockSize = 4
  StripeCount = 2
  MaxId = 3
PROPERTY OutOfMemoryOnlyIfPinned
