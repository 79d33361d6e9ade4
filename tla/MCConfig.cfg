SPECIFICATION ConfigSpec
CONSTANTS
  Span <- MCSpan
  Exact <- MCExact
  Steps = {1, 2, 4, 8, 16}
  Numbers <- MCNumbers
  MaxItems = 2
  MaxCalls = 4
INVARIANTS ValuesReadBack LoadedAsWritten
PROPERTY CallsStayInPlace
CHECK_DEADLOCK FALSE
