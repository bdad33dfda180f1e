SPECIFICATION Spec
CONSTANTS
  MaxTasks = 3
  Coroutine = {c1, c2, c3, c4, c5}
  NULL = NULL
  MaxPoll = 2
  Contract <- Careful
SYMMETRY Symmetry
INVARIANT NoAbort
PROPERTY PollYieldsResults
PROPERTY ImplementsAsync
