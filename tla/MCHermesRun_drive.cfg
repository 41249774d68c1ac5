SPECIFICATION Spec
CONSTANTS
  x = x  y = y
  Args = {x, y}
  MaxSteps = 3
  MaxTurns = 4
  MaxFaults = 1
SYMMETRY Symmetry
INVARIANTS PostedHistoryIsAnswered KeysAreFresh
CHECK_DEADLOCK FALSE
