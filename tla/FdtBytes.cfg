SPECIFICATION FairSpec
CONSTANTS
  MaxEnd = 28
  FDT_MAX_DEPTH = 2
  MaxLen = 9
  Word64 = 64
INVARIANT StaysInBlock
PROPERTY LoopsEnd
