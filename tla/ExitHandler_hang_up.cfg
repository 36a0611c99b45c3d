SPECIFICATION MCFairSpec
CONSTANTS
  p1 = p1
  p2 = p2
  s1 = s1
  s2 = s2
  x1 = x1
  x2 = x2
  Primaries <- OnePrimary
  Submissions <- OneSubmission
  PrimaryOf <- OnePrimaryOf
  LegsOf <- BothLegs
  Symbols = {x1}
  SymbolOf <- OneSymbolOf
  Total = 1
  MinQty = 1
  Retries = 1
  Threshold = 1
  MaxPending = 2
  MaxDisturbances = 1
PROPERTIES
  BufferedFillReplayed
