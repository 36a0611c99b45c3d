CONSTANTS
  Count = 3
  Silent = {}
  Terminals = {}
  Conns = {c1}
  Capacity = 1
SPECIFICATION Spec
PROPERTIES NoDeliveryAfterDrop
CHECK_DEADLOCK FALSE
