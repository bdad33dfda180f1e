SPECIFICATION RegisterAndSkipSpec
CONSTANTS
  Elem = {a}
  Junk = Junk
  Growth = 10
  MaxCap = 10
INVARIANT VerifyQueueOrdered
