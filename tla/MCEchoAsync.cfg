SPECIFICATION FairSpec
CONSTANTS
  Client = {a, b}
  Message <- Messages
  Ahead <- OneAhead
  Room = 2
  BufSize = 3
  Faults <- AllFaults
INVARIANT BytesKept
INVARIANT ServedOnce
PROPERTY ImplementsEcho
PROPERTY Answered
