SPECIFICATION DSpec
CONSTANTS
  NULL = NULL
  PAGE_SIZE = 4
  SizeofPage = 1
  MemMaps <- MCMemMaps
  PMM_MAX_ORDER = 4
INVARIANT
  DoubleFreeRefused
