SPECIFICATION Spec
CONSTANTS
  Inputs <- MCInputs
  NameLen <- MCNameLen
  Word = 16
  uart_compatibles <- MCCompatibles
  UART_PATH_MAX = 12
  FDT_MAX_DEPTH = 3
  FDT_MAX_PATH = 12
  CellBase = 16
  TreeTokens = 5
  BrokenTokens = 3
INVARIANTS LookupRight WalkInStep RegRight PortRight ReadsInside
