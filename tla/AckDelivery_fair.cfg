CONSTANTS
  Count = 3
  Silent = {2}
  Terminals = {3}
  Conns = {c1, c2}
  Capacity = 1
SPECIFICATION FairSpec
PROPERTIES AckReachesEngine EnginePaced
CHECK_DEADLOCK FALSE
