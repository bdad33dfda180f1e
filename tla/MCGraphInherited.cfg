SPECIFICATION Spec
CONSTANTS
  MaxTasks = 2
  Coroutine = {c1, c2, c3, c4}
  NULL = NULL
  MaxPoll = 1
  Contract <- NotInherited
SYMMETRY Symmetry
INVARIANT PollsAHandle
