SPECIFICATION Spec
CONSTANTS
  NULL = NULL
  PAGE_SIZE = 4
  SizeofPage = 1
  MemMaps <- MCMemMaps
  PMM_MAX_ORDER = 3
INVARIANTS TypeOK NoOverlap MergesListedBuddy ListsWellLinked FreeCountExact HeldIsUsableRam FailsOnlyWhenFull
PROPERTIES ImplementsPhysMem
