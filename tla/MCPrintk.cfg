SPECIFICATION PrintkSpec
CONSTANTS
  Char <- MCChar
  Span <- MCSpan
  PtrDigits = 2
  Times <- MCTimes
  Scripts <- MCScripts
INVARIANTS NumberShown LinesShown PrefixStartsLine ReadsFormatOnly
