SPECIFICATION FairSpec
CONSTANTS
  MaxTasks = 3
  Coroutine = {c1, c2, c3, c4}
  NULL = NULL
  MaxPoll = 2
  \* a careful program queues each slot at most once
  MaxQueue = 3
  Contract <- Careful
INVARIANT QueueHoldsLive
INVARIANT NoAbort
PROPERTY YieldsResults
PROPERTY ImplementsAsync
PROPERTY WaitsEnd
