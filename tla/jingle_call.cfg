SPECIFICATION FairSpec
CONSTANTS
  None = None
  Names = {"a", "b", "c"}
  Unsupported = {"c"}
  Liberties = {}
  MaxCalls = 3
\* the call ends
CHECK_DEADLOCK FALSE
INVARIANTS SidesAgree
PROPERTIES AcceptedCallsSettle
