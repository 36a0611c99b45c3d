SPECIFICATION MCSpec
CONSTANTS
  p1 = p1
  p2 = p2
  s1 = s1
  s2 = s2
  x1 = x1
  x2 = x2
  Primaries <- TwoPrimaries
  Submissions <- TwoSubmissions
  PrimaryOf <- BothPrimariesOf
  LegsOf <- StopAndTarget
  Symbols = {x1}
  SymbolOf <- TwoSymbolOf
  Total = 1
  MinQty = 1
  Retries = 0
  Threshold = 1
  MaxPending = 1
  MaxDisturbances = 1
INVARIANTS
  FirstLegReached
