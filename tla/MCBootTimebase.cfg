SPECIFICATION Spec
CONSTANTS
  Word = 16
  Thousand = 2
  KTIME_FALLBACK_FREQ = 3
  Starts = {0, 12}
  MaxTicks = 7
  PoolSize = 2
  Machines <- MCComplete
INVARIANT TimebaseUsed
