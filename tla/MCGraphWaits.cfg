SPECIFICATION TerminatingSpec
CONSTANTS
  MaxTasks = 3
  Coroutine = {c1, c2, c3}
  NULL = NULL
  MaxPoll = 2
  Contract <- Careful
PROPERTY WaitsEnd
PROPERTY OrphansReclaimed
