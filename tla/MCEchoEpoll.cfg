SPECIFICATION FairSpec
CONSTANTS
  Client = {a, b}
  Message <- Messages
  Ahead <- OneAhead
  Room = 2
  BufSize = 3
  EVENTS_CNT = 2
  MaxCount = 1
  Faults <- AllFaults
INVARIANT TypeOK
INVARIANT BytesKept
INVARIANT NoStaleEvent
INVARIANT CountsClients
PROPERTY ImplementsEcho
PROPERTY Answered
