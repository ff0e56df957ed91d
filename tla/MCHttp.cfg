SPECIFICATION Spec
CONSTANTS
  Tables <- RouteTables
  Requests <- SomeRequests
  Implemented = {"GET", "POST"}
  MaxRequests = 2
CHECK_DEADLOCK FALSE
INVARIANTS HandledByMatchingRoute GivesUpOnlyWithoutRoute RequestIsReadBack AnsweredInOrder
PROPERTIES HungUpIsUncounted RequestIsAnswered
