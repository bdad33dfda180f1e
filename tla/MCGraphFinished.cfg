SPECIFICATION Spec
CONSTANTS
  MaxTasks = 2
  Coroutine = {c1, c2, c3}
  NULL = NULL
  MaxPoll = 1
  Contract <- NotUnfinished
SYMMETRY Symmetry
INVARIANT SwitchesToRunnable
