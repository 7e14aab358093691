SPECIFICATION Spec
CONSTANTS
  Size = 5
  Bytes = {0, 1, 200}
  Ints = {1, 256, 300}
  UINT8 = 256
INVARIANTS Moved Answered StopsAtEnd
