SPECIFICATION Spec
CONSTANTS
  NULL = NULL
  PAGE_SIZE = 2
  PT_ENTRIES = 3
  AddrSpan = 54
  HhdmOffset = 18
  KernelPhys = 12
  KernelVirt = 48
  KernelSize = 4
  PmmFree = {{}}
  Frames <- MCFrames
  MemMap <- MCMemMap
  Segments <- MCSegments
  Pool <- MCPool
  Satps <- MCSatps
  BootMem <- MCBootMem
  MmioCalls <- MCMmioCalls
  MapCalls <- MCMapCalls
  Lookups <- MCLookups
INVARIANT
  InitOkMapsAll
