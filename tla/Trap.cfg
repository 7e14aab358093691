SPECIFICATION FairSpec
CONSTANTS
  Interrupts = {1, 5}
  Exceptions = {3, 9, 13}
  CFrame = 16
  MaxFaults = 2
INVARIANTS PanicTells
PROPERTIES Transparent InterruptReturns
