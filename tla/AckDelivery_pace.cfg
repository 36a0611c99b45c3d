CONSTANTS
  Count = 4
  Silent = {2}
  Terminals = {4}
  Conns = {c1, c2}
  Capacity = 1
SPECIFICATION Spec
INVARIANTS TypeOK NoAckLost TerminalOnce
CHECK_DEADLOCK FALSE
