SPECIFICATION Spec
CONSTANTS
  World = {"document", "scalar", "input"}
  Char <- Chars
  Key <- Keys
  MaxWritten = 6
  MaxDepth = 4
  MaxInput = 7
  MaxDigits = 4
CHECK_DEADLOCK FALSE
INVARIANTS ParserHoldsInput AcceptsDocuments ReadsBack FormatsUnmixedValues
