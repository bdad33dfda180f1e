SPECIFICATION PartsSpec
CONSTANTS
  Elem = {a, b}
  Junk = Junk
  Growth = 3
  MaxCap = 9
  NULL = NULL
  Other = {x, y}
  Coroutine = {c1, c2, c3}
  \* With MapGrowth = 1 the capacities are 1, 3, 7 and 15; from 3 to 7 the keys
  \* move forwards (9: 0 to 2, 15: 0 to 1), backwards (8: 2 to 1) and to new cells
  \* (4: 1 to 4).
  Key = {1, 4, 8, 9, 15}
  MapGrowth = 1
  Load = 1
  MaxNodes = 8
  FirstCap = 4
  Sizes = {1, 3, 4, 9}
  MaxAllocs = 6
  MaxClients = 7
  Extra = 2
  MaxLen = 3
  MaxTasks = 2
  MaxPoll = 1
  MaxQueue = 4
  Contract = {}
SYMMETRY Symmetry
CHECK_DEADLOCK FALSE
INVARIANT TypeOK
INVARIANT QueueOK
INVARIANT RingOK
PROPERTY ImplementsDeque
INVARIANT TableOK
PROPERTY ImplementsMap
INVARIANT ArenaOK
INVARIANT ListOK
INVARIANT StringsOK
INVARIANT PackOK
