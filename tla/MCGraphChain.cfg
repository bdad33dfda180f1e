SPECIFICATION Spec
CONSTANTS
  MaxTasks = 3
  Coroutine = {c1, c2, c3, c4}
  NULL = NULL
  MaxPoll = 1
  Contract <- AnyWaits
SYMMETRY Symmetry
INVARIANT WaitersLinked
INVARIANT ParentsWait
INVARIANT SuccessorExists
