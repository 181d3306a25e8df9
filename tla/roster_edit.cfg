SPECIFICATION FairSpec
CONSTANTS
  None = None
  j1 = j1
  n1 = n1
  n2 = n2
  g1 = g1
  Jids = {j1}
  Names = {n1, n2}
  Groups = {g1}
  Subs = {"none"}
  MaxCalls = 3
  Reentrant = {"flying"}
  MaxDisturbances = 1
\* the application stops asking for edits
CHECK_DEADLOCK FALSE
INVARIANTS RosterIsCurrent EditsAreTracked
PROPERTIES EditsEnd
