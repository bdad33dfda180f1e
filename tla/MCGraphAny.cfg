SPECIFICATION FairSpec
CONSTANTS
  MaxTasks = 2
  Coroutine = {c1, c2, c3, c4}
  NULL = NULL
  MaxPoll = 1
  Contract <- AnyClient
INVARIANT TypeOK
INVARIANT FreeListOK
INVARIANT QueueOK
INVARIANT RunningAtFront
INVARIANT RegistryOK
PROPERTY AwaitYieldsResult
PROPERTY Scheduled
