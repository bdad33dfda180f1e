SPECIFICATION Spec
CONSTANTS
  Caller = {a}
  Fd = {x}
INVARIANT ArgsArrive
CHECK_DEADLOCK FALSE
