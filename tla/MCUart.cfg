SPECIFICATION FairSpec
CONSTANTS
  Compatibles <- MCCompatibles
  Trees <- MCTrees
  DefaultPort <- MCDefaultPort
  Strings <- MCStrings
  Bytes <- MCBytes
  SPIN_LIMIT = 2
  FifoDepth = 2
  MaxBytes = 4
INVARIANTS PortConsistent Configured OrderedOutput InputInOrder
PROPERTIES PutsReturns InitReturns
CHECK_DEADLOCK FALSE
