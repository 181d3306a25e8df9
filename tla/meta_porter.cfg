SPECIFICATION FairSpec
CONSTANTS
  None = None
  Anyone = Anyone
  me = me
  c1 = c1
  h1 = h1
  a1 = a1
  Contacts = {me, c1}
  Self = me
  Unreachable = {me}
  MaxAddresses = 2
  MaxCalls = 2
  Handlers = {h1}
  Arrivals = {a1}
  MaxHolds = 1
  MaxActs = 3
\* the application asks for a bounded number of things
CHECK_DEADLOCK FALSE
INVARIANTS HoldsAreCounted OneStreamWithItsHandlers
PROPERTIES CallsEnd
