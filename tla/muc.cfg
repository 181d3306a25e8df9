SPECIFICATION FairSpec
CONSTANTS
  None = None
  a = a
  b = b
  c = c
  Nicks = {a, b, c}
  Liberties = {}
  MaxCalls = 3
  MaxEvents = 2
\* everybody falls silent
CHECK_DEADLOCK FALSE
INVARIANTS RoomIsMirrored SignalsTellAll
PROPERTIES RequestsEnd
